---- MODULE Spec2Model ----
(***************************************************************************)
(* A model of the query translation and row-evaluation engine of           *)
(* src/index.js (class GoogleSheetDB): value coercion (_parseValue), the   *)
(* predicate evaluator (_applyFilter), the sort engine (_applySorting) and *)
(* the WHERE handling of the query translator (_sqlToNosqlConverter).      *)
(*                                                                         *)
(* JavaScript strings are TLA+ strings, read one character at a time with  *)
(* SubSeq; every other JavaScript value is a tagged record.                *)
(***************************************************************************)
EXTENDS Integers, Sequences, FiniteSets, TLC

VARIABLES
    pc,        \* "call": the arguments are bound; "return": the call is over
    fn,        \* the method that is called
    data,      \* the rows handed to _applyFilter / _applySorting; the sheet before the operations on the store
    where,     \* the Filter: Object.entries(where), a sequence of <<key, condition>>
    orderBy,   \* the orderBy list: a sequence of [column, direction]
    sqlQuery,  \* the text handed to _sqlToNosqlConverter
    sqlParts,  \* how sqlQuery was put together: [head, conds, tail]
    ret,       \* the outcome of the call
    fields,    \* the field list handed to _applySelectFields
    options,   \* the options handed to select
    sheet,     \* the row store: res.data.values, the header row first
    ops,       \* the public operations under way on the store, one per caller
    log,       \* the calls of the store so far, and by which caller
    tab        \* whether the spreadsheet has the tab of the table

vars == <<pc, fn, data, where, orderBy, sqlQuery, sqlParts, ret, fields, options, sheet, ops, log, tab>>

(***************************************************************************)
(* Bounds of the model.                                                    *)
(***************************************************************************)
MaxFilterRows == 2
MaxSortRows == 4
MaxConditions == 2
MaxSelectRows == 3
MaxFields == 2
MaxSlice == 2
MaxClauses == 2
MaxStoreRows == 2
MaxAloneRows == 3

(***************************************************************************)
(* Strings.                                                                *)
(***************************************************************************)
Ch(s, i) == SubSeq(s, i, i)

\* The printable ASCII characters in code-unit order: U+0020..U+005F and
\* U+0061..U+007E (U+0060 is left out).
AsciiLow == " !\"#$%&'()*+,-./0123456789:;<=>?@ABCDEFGHIJKLMNOPQRSTUVWXYZ[\\]^_"
AsciiHigh == "abcdefghijklmnopqrstuvwxyz{|}~"

AsciiSet == {Ch(AsciiLow, i) : i \in 1..Len(AsciiLow)} \cup {Ch(AsciiHigh, i) : i \in 1..Len(AsciiHigh)}

\* String.fromCharCode
FromCharCode(k) == IF k < 96 THEN Ch(AsciiLow, k - 31) ELSE Ch(AsciiHigh, k - 96)

\* The UTF-16 code unit of a character.
CharCode == [c \in AsciiSet |-> CHOOSE k \in (32..95) \cup (97..126) : FromCharCode(k) = c]

IsUpperChar(c) == CharCode[c] >= 65 /\ CharCode[c] <= 90
IsLowerChar(c) == CharCode[c] >= 97 /\ CharCode[c] <= 122
IsDigitChar(c) == CharCode[c] >= 48 /\ CharCode[c] <= 57
\* \s of a regular expression and the white space of trim(), within ASCII.
IsSpaceChar(c) == c = " "
\* \w of a regular expression.
IsWordChar(c) == IsUpperChar(c) \/ IsLowerChar(c) \/ IsDigitChar(c) \/ c = "_"

LowerOfChar == [c \in AsciiSet |-> IF IsUpperChar(c) THEN FromCharCode(CharCode[c] + 32) ELSE c]
UpperOfChar == [c \in AsciiSet |-> IF IsLowerChar(c) THEN FromCharCode(CharCode[c] - 32) ELSE c]

RECURSIVE ToLowerCase(_)
ToLowerCase(s) == IF s = "" THEN "" ELSE LowerOfChar[Head(s)] \o ToLowerCase(Tail(s))

RECURSIVE ToUpperCase(_)
ToUpperCase(s) == IF s = "" THEN "" ELSE UpperOfChar[Head(s)] \o ToUpperCase(Tail(s))

\* String.prototype.includes
Includes(s, sub) ==
    \E i \in 0..(Len(s) - Len(sub)) : SubSeq(s, i + 1, i + Len(sub)) = sub

\* String.prototype.startsWith
StartsWith(s, prefix) == Len(prefix) <= Len(s) /\ SubSeq(s, 1, Len(prefix)) = prefix

\* s < t on two strings: the comparison of their code units, left to right.
RECURSIVE StrLess(_, _)
StrLess(s, t) ==
    IF t = "" THEN FALSE
    ELSE IF s = "" THEN TRUE
    ELSE IF Head(s) = Head(t) THEN StrLess(Tail(s), Tail(t))
    ELSE CharCode[Head(s)] < CharCode[Head(t)]

\* String.prototype.trim
RECURSIVE TrimStart(_)
TrimStart(s) == IF s # "" /\ IsSpaceChar(Head(s)) THEN TrimStart(Tail(s)) ELSE s

RECURSIVE TrimEnd(_)
TrimEnd(s) ==
    IF s # "" /\ IsSpaceChar(Ch(s, Len(s))) THEN TrimEnd(SubSeq(s, 1, Len(s) - 1)) ELSE s

\* A trim of the leading white space alone.
TrimLeading(s) == TrimStart(s)

Trim(s) == TrimEnd(TrimStart(s))

IsDigits(s) == s # "" /\ \A i \in 1..Len(s) : IsDigitChar(Ch(s, i))

\* The value of a string of decimal digits.
RECURSIVE DigitsValue(_)
DigitsValue(s) ==
    IF s = "" THEN 0
    ELSE 10 * DigitsValue(SubSeq(s, 1, Len(s) - 1)) + (CharCode[Ch(s, Len(s))] - 48)

\* The decimal digits of a natural number.
RECURSIVE NatToString(_)
NatToString(n) ==
    IF n < 10 THEN FromCharCode(n + 48)
    ELSE NatToString(n \div 10) \o FromCharCode((n % 10) + 48)

(***************************************************************************)
(* JavaScript values: strings, numbers (integers here; the bounded inputs  *)
(* hold no fraction), NaN, undefined, null, and the condition object       *)
(* {op, value}. Thrown is the outcome of an expression that raises.        *)
(***************************************************************************)
Str(s) == [t |-> "string", s |-> s, n |-> 0]
Num(n) == [t |-> "number", s |-> "", n |-> n]
NaN == [t |-> "NaN", s |-> "", n |-> 0]
Undefined == [t |-> "undefined", s |-> "", n |-> 0]
Null == [t |-> "null", s |-> "", n |-> 0]
Thrown == [t |-> "throw", s |-> "TypeError", n |-> 0]
Cond(op, value) == [t |-> "object", op |-> op, value |-> value]

\* typeof condition === 'object' && condition !== null
IsObject(v) == v.t = "object"

\* A signed decimal integer literal.
IsIntLiteral(s) ==
    IF s # "" /\ Head(s) \in {"-", "+"} THEN IsDigits(Tail(s)) ELSE IsDigits(s)

IntLiteralValue(s) ==
    IF Head(s) = "-" THEN 0 - DigitsValue(Tail(s))
    ELSE IF Head(s) = "+" THEN DigitsValue(Tail(s))
    ELSE DigitsValue(s)

\* ToNumber: Number(v). A string is trimmed; the empty string is 0.
ToNumber(v) ==
    CASE v.t = "number" -> v
      [] v.t = "null" -> Num(0)
      [] v.t = "string" ->
            LET s == Trim(v.s)
            IN  IF s = "" THEN Num(0)
                ELSE IF IsIntLiteral(s) THEN Num(IntLiteralValue(s))
                ELSE NaN
      [] OTHER -> NaN

\* ToString: String(v).
JsToString(v) ==
    CASE v.t = "string" -> v.s
      [] v.t = "number" -> IF v.n < 0 THEN "-" \o NatToString(0 - v.n) ELSE NatToString(v.n)
      [] v.t = "NaN" -> "NaN"
      [] v.t = "undefined" -> "undefined"
      [] v.t = "null" -> "null"
      [] OTHER -> "[object Object]"

\* isNaN(v): Number(v) is NaN.
IsNaN(v) == ToNumber(v).t = "NaN"

\* The longest prefix of s that is a decimal literal: its length (0: none).
RECURSIVE DigitRun(_)
DigitRun(s) == IF s # "" /\ IsDigitChar(Head(s)) THEN 1 + DigitRun(Tail(s)) ELSE 0

\* parseFloat(v): the number at the start of String(v), leading white space
\* skipped; NaN when there is none.
ParseFloat(v) ==
    IF v.t = "number" THEN v
    ELSE LET s == TrimStart(JsToString(v))
             signed == s # "" /\ Head(s) \in {"-", "+"}
             body == IF signed THEN Tail(s) ELSE s
             k == DigitRun(body)
         IN  IF k = 0 THEN NaN
             ELSE IF signed /\ Head(s) = "-" THEN Num(0 - DigitsValue(SubSeq(body, 1, k)))
             ELSE Num(DigitsValue(SubSeq(body, 1, k)))

(***************************************************************************)
(* Dates. new Date(s).getTime() for the date-only forms of the ECMAScript  *)
(* date-time string format (YYYY, YYYY-MM, YYYY-MM-DD: UTC midnights), in  *)
(* whole days since the epoch (getTime() / 86400000, exact for these       *)
(* forms); NaN for a string that holds no date.                            *)
(***************************************************************************)
IsLeapYear(y) == (y % 4 = 0 /\ y % 100 # 0) \/ y % 400 = 0

DaysInMonth(y, m) ==
    IF m = 2 THEN (IF IsLeapYear(y) THEN 29 ELSE 28)
    ELSE IF m \in {4, 6, 9, 11} THEN 30 ELSE 31

\* MakeDay: the day number of a civil date.
DaysFromCivil(y, m, d) ==
    LET yy == IF m <= 2 THEN y - 1 ELSE y
        era == yy \div 400
        yoe == yy - era * 400
        mp == IF m > 2 THEN m - 3 ELSE m + 9
        doy == (153 * mp + 2) \div 5 + d - 1
        doe == yoe * 365 + yoe \div 4 - yoe \div 100 + doy
    IN  era * 146097 + doe - 719468

\* A parser that reads a text that is no date as the epoch.
DateParseLenient(s) ==
    LET n == Len(s)
        okY == n >= 4 /\ IsDigits(SubSeq(s, 1, 4))
        okM == n >= 7 /\ Ch(s, 5) = "-" /\ IsDigits(SubSeq(s, 6, 7))
        okD == n = 10 /\ Ch(s, 8) = "-" /\ IsDigits(SubSeq(s, 9, 10))
        y == DigitsValue(SubSeq(s, 1, 4))
        m == IF n >= 7 THEN DigitsValue(SubSeq(s, 6, 7)) ELSE 1
        d == IF n = 10 THEN DigitsValue(SubSeq(s, 9, 10)) ELSE 1
        shape == \/ n = 4 /\ okY
                 \/ n = 7 /\ okY /\ okM
                 \/ n = 10 /\ okY /\ okM /\ okD
    IN  IF shape /\ m >= 1 /\ m <= 12 /\ d >= 1 /\ d <= DaysInMonth(y, m)
        THEN Num(DaysFromCivil(y, m, d))
        ELSE Num(0)

DateParse(s) ==
    LET n == Len(s)
        okY == n >= 4 /\ IsDigits(SubSeq(s, 1, 4))
        okM == n >= 7 /\ Ch(s, 5) = "-" /\ IsDigits(SubSeq(s, 6, 7))
        okD == n = 10 /\ Ch(s, 8) = "-" /\ IsDigits(SubSeq(s, 9, 10))
        y == DigitsValue(SubSeq(s, 1, 4))
        m == IF n >= 7 THEN DigitsValue(SubSeq(s, 6, 7)) ELSE 1
        d == IF n = 10 THEN DigitsValue(SubSeq(s, 9, 10)) ELSE 1
        shape == \/ n = 4 /\ okY
                 \/ n = 7 /\ okY /\ okM
                 \/ n = 10 /\ okY /\ okM /\ okD
    IN  IF shape /\ m >= 1 /\ m <= 12 /\ d >= 1 /\ d <= DaysInMonth(y, m)
        THEN Num(DaysFromCivil(y, m, d))
        ELSE NaN

\* new Date(v).getTime(); a number is a count of milliseconds.
DateGetTime(v) ==
    CASE v.t = "string" -> DateParse(v.s)
      [] v.t = "null" -> Num(0)
      [] v.t = "number" -> Num(v.n \div 86400000)
      [] OTHER -> NaN

(***************************************************************************)
(* The comparison operators of JavaScript on the values above.             *)
(***************************************************************************)
\* a === b
StrictEquals(a, b) == a.t # "NaN" /\ a = b

\* a == b
LooseEquals(a, b) ==
    CASE a.t = "NaN" \/ b.t = "NaN" -> FALSE
      [] a.t = "string" /\ b.t = "string" -> a.s = b.s
      [] a.t = "number" /\ b.t = "number" -> a.n = b.n
      [] a.t \in {"undefined", "null"} /\ b.t \in {"undefined", "null"} -> TRUE
      [] a.t = "number" /\ b.t = "string" -> ToNumber(b) = a
      [] a.t = "string" /\ b.t = "number" -> ToNumber(a) = b
      [] OTHER -> FALSE

\* a < b
LessThan(a, b) ==
    IF a.t = "string" /\ b.t = "string" THEN StrLess(a.s, b.s)
    ELSE LET x == ToNumber(a)
             y == ToNumber(b)
         IN  x.t = "number" /\ y.t = "number" /\ x.n < y.n

\* a > b
GreaterThan(a, b) == LessThan(b, a)

\* a <= b
LessOrEqual(a, b) ==
    IF a.t = "string" /\ b.t = "string" THEN ~StrLess(b.s, a.s)
    ELSE LET x == ToNumber(a)
             y == ToNumber(b)
         IN  x.t = "number" /\ y.t = "number" /\ x.n <= y.n

\* a >= b
GreaterOrEqual(a, b) == LessOrEqual(b, a)

\* v || ''
OrEmpty(v) ==
    IF \/ v.t \in {"undefined", "null", "NaN"}
       \/ v = Str("")
       \/ v = Num(0)
    THEN Str("") ELSE v

(***************************************************************************)
(* _parseValue                                                             *)
(***************************************************************************)
ParseValue(value, isDate) ==
    IF isDate THEN DateGetTime(value)
    ELSE IF ~IsNaN(value) THEN ParseFloat(value)
    ELSE IF value.t = "undefined" THEN Thrown
    ELSE Str(ToLowerCase(JsToString(value)))

(***************************************************************************)
(* _applyFilter                                                            *)
(***************************************************************************)
\* row[key]
RowGet(row, key) == IF key \in DOMAIN row THEN row[key] ELSE Undefined

\* key.includes('date'), the case of the name kept
IsDateColumnCased(key) == Includes(key, "date")

\* key.toLowerCase().includes('date')
IsDateColumn(key) == Includes(ToLowerCase(key), "date")

\* A callback whose contains tests the coerced cell instead of the raw one.
MatchEntryCoerced(row, key, condition) ==
    LET rowVal == OrEmpty(RowGet(row, key))
        isDate == IsDateColumn(key)
    IN  IF IsObject(condition)
        THEN LET op == condition.op
                 value == condition.value
                 a == ParseValue(rowVal, isDate)
                 b == ParseValue(value, isDate)
                 hit == CASE op = Str(">") -> GreaterThan(a, b)
                          [] op = Str("<") -> LessThan(a, b)
                          [] op = Str(">=") -> GreaterOrEqual(a, b)
                          [] op = Str("<=") -> LessOrEqual(a, b)
                          [] op = Str("!=") -> ~LooseEquals(a, b)
                          [] op = Str("=") -> LooseEquals(a, b)
                          [] OTHER -> FALSE
             IN  IF a = Thrown \/ b = Thrown THEN "throw"
                 ELSE IF op = Str("contains")
                 THEN (IF Includes(ToLowerCase(JsToString(a)), ToLowerCase(JsToString(value)))
                       THEN "true" ELSE "false")
                 ELSE IF hit THEN "true" ELSE "false"
        ELSE IF LooseEquals(rowVal, condition) THEN "true" ELSE "false"

\* The callback of every(): "true", "false", or "throw" when it raises.
MatchEntry(row, key, condition) ==
    LET rowVal == OrEmpty(RowGet(row, key))
        isDate == IsDateColumn(key)
    IN  IF IsObject(condition)
        THEN LET op == condition.op
                 value == condition.value
                 a == ParseValue(rowVal, isDate)
                 b == ParseValue(value, isDate)
                 hit == CASE op = Str(">") -> GreaterThan(a, b)
                          [] op = Str("<") -> LessThan(a, b)
                          [] op = Str(">=") -> GreaterOrEqual(a, b)
                          [] op = Str("<=") -> LessOrEqual(a, b)
                          [] op = Str("!=") -> ~LooseEquals(a, b)
                          [] op = Str("=") -> LooseEquals(a, b)
                          [] OTHER -> FALSE
             IN  IF a = Thrown \/ b = Thrown THEN "throw"
                 ELSE IF op = Str("contains")
                 THEN (IF rowVal.t # "string" THEN "throw"
                       ELSE IF Includes(ToLowerCase(rowVal.s), ToLowerCase(JsToString(value)))
                       THEN "true" ELSE "false")
                 ELSE IF hit THEN "true" ELSE "false"
        ELSE IF LooseEquals(rowVal, condition) THEN "true" ELSE "false"

\* Object.entries(where).some(...): stops at the first entry that matches.
RECURSIVE SomeEntry(_, _, _)
SomeEntry(row, entries, i) ==
    IF i > Len(entries) THEN "false"
    ELSE LET r == MatchEntry(row, entries[i][1], entries[i][2])
         IN  IF r = "false" THEN SomeEntry(row, entries, i + 1) ELSE r

\* Object.entries(where).every(...): stops at the first entry that does not match.
RECURSIVE Every(_, _, _)
Every(row, entries, i) ==
    IF i > Len(entries) THEN "true"
    ELSE LET r == MatchEntry(row, entries[i][1], entries[i][2])
         IN  IF r = "true" THEN Every(row, entries, i + 1) ELSE r

Returned(rows) == [threw |-> FALSE, rows |-> rows]
Raised == [threw |-> TRUE, rows |-> <<>>]

\* data.filter(row => ...): the rows kept so far are acc; row i is next.
RECURSIVE FilterFrom(_, _, _, _)
FilterFrom(rows, entries, i, acc) ==
    IF i > Len(rows) THEN Returned(acc)
    ELSE LET r == Every(rows[i], entries, 1)
         IN  IF r = "throw" THEN Raised
             ELSE FilterFrom(rows, entries, i + 1, IF r = "true" THEN Append(acc, rows[i]) ELSE acc)

ApplyFilterResult(rows, entries) == FilterFrom(rows, entries, 1, <<>>)

(***************************************************************************)
(* _getSheetData: the rows of a sheet, keyed by the header row, each with  *)
(* its position _row. values is res.data.values: the header row, then one  *)
(* sequence of cells per data row.                                         *)
(***************************************************************************)
Range(seq) == {seq[i] : i \in 1..Len(seq)}

\* A row numbered as if the first data row were at position 1.
SheetRowFromOne(headers, cells, i) ==
    [k \in Range(headers) \cup {"_row"} |->
        IF k = "_row" THEN Num(i + 1)
        ELSE LET j == CHOOSE x \in 1..Len(headers) :
                          headers[x] = k /\ \A y \in (x + 1)..Len(headers) : headers[y] # k
             IN  OrEmpty(IF j <= Len(cells) THEN Str(cells[j]) ELSE Undefined)]

SheetRow(headers, cells, i) ==
    [k \in Range(headers) \cup {"_row"} |->
        IF k = "_row" THEN Num(i + 2)
        ELSE LET j == CHOOSE x \in 1..Len(headers) :
                          headers[x] = k /\ \A y \in (x + 1)..Len(headers) : headers[y] # k
             IN  OrEmpty(IF j <= Len(cells) THEN Str(cells[j]) ELSE Undefined)]

\* rows.slice(1).map((row, i) => ...), i counted from 0
GetSheetData(values) ==
    IF Len(values) = 0 THEN <<>>
    ELSE [i \in 1..(Len(values) - 1) |-> SheetRow(values[1], values[i + 1], i - 1)]

(***************************************************************************)
(* _applySorting                                                           *)
(***************************************************************************)
\* The comparator handed to sort(): -1, 0, 1, or 2 when it raises. The keys
\* are walked from index i.
RECURSIVE CompareFrom(_, _, _, _)
CompareFrom(a, b, keys, i) ==
    IF i > Len(keys) THEN 0
    ELSE LET column == keys[i].column
             direction == keys[i].direction
             isDate == IsDateColumn(column)
             valA == ParseValue(RowGet(a, column), isDate)
             valB == ParseValue(RowGet(b, column), isDate)
         IN  IF valA = Thrown \/ valB = Thrown THEN 2
             ELSE IF LessThan(valA, valB) THEN (IF direction = Str("desc") THEN 1 ELSE -1)
             ELSE IF GreaterThan(valA, valB) THEN (IF direction = Str("desc") THEN -1 ELSE 1)
             ELSE CompareFrom(a, b, keys, i + 1)

Compare(a, b, keys) == CompareFrom(a, b, keys, 1)

\* The comparator on every pair of elements: m[i][j] is Compare(rows[i], rows[j]).
CompareMatrix(rows, keys) ==
    [i \in 1..Len(rows) |-> [j \in 1..Len(rows) |-> Compare(rows[i], rows[j], keys)]]

\* Whether the comparator raises on some pair of two different elements.
ComparatorRaises(m) ==
    \E i, j \in DOMAIN m : i # j /\ m[i][j] = 2

\* ECMAScript's consistent comparison function, on the elements of the array.
ConsistentComparator(m) ==
    LET S == DOMAIN m
    IN  /\ \A x \in S : m[x][x] = 0
        /\ \A x, y \in S : (m[x][y] = 0) = (m[y][x] = 0)
        /\ \A x, y \in S : (m[x][y] < 0) = (m[y][x] > 0)
        /\ \A x, y, z \in S : m[x][y] = 0 /\ m[y][z] = 0 => m[x][z] = 0
        /\ \A x, y, z \in S : m[x][y] < 0 /\ m[y][z] < 0 => m[x][z] < 0
        /\ \A x, y, z \in S : m[x][y] > 0 /\ m[y][z] > 0 => m[x][z] > 0

\* The place of x in a sorted sequence: after every element it does not precede.
RECURSIVE InsertSorted(_, _, _)
InsertSorted(sorted, x, keys) ==
    IF sorted = <<>> THEN <<x>>
    ELSE IF Compare(x, sorted[Len(sorted)], keys) < 0
    THEN Append(InsertSorted(SubSeq(sorted, 1, Len(sorted) - 1), x, keys), sorted[Len(sorted)])
    ELSE Append(sorted, x)

\* The stable sort of rows under a consistent comparator.
RECURSIVE StableSort(_, _)
StableSort(rows, keys) ==
    IF rows = <<>> THEN <<>>
    ELSE InsertSorted(StableSort(SubSeq(rows, 1, Len(rows) - 1), keys), rows[Len(rows)], keys)

Reorderings(rows) ==
    {[i \in 1..Len(rows) |-> rows[p[i]]] :
        p \in {q \in [1..Len(rows) -> 1..Len(rows)] : \A i, j \in 1..Len(rows) : q[i] = q[j] => i = j}}

\* Array.prototype.sort with the comparator: the outcomes an engine may give.
\* Fewer than two elements are never compared. A sort compares two elements
\* that tie on the keys before the raising one, so it raises when the
\* comparator can. Under a consistent comparator the sort is stable; under
\* an inconsistent one ECMAScript leaves the order to the implementation.
ApplySortingResults(rows, keys) ==
    LET m == CompareMatrix(rows, keys)
    IN  IF Len(rows) < 2 THEN {Returned(rows)}
        ELSE IF ComparatorRaises(m) THEN {Raised}
        ELSE IF ConsistentComparator(m) THEN {Returned(StableSort(rows, keys))}
        ELSE {Returned(p) : p \in Reorderings(rows)}

(***************************************************************************)
(* _sqlToNosqlConverter. Its regular expressions are matched by hand: a    *)
(* match is sought from the leftmost start, \s+ and \w+ take the longest   *)
(* run, a lazy group the shortest text that lets the rest match. Indices   *)
(* count from 1; 0 is "no match".                                          *)
(***************************************************************************)
Min(S) == CHOOSE x \in S : \A y \in S : x <= y
Max(S) == CHOOSE x \in S : \A y \in S : x >= y

\* A literal of a /i expression at index i.
LitAt(s, i, lit) ==
    /\ i >= 1
    /\ i + Len(lit) - 1 <= Len(s)
    /\ ToUpperCase(SubSeq(s, i, i + Len(lit) - 1)) = ToUpperCase(lit)

SpaceAt(s, i) == i >= 1 /\ i <= Len(s) /\ IsSpaceChar(Ch(s, i))

\* The first index from i that holds no white space (Len(s) + 1: none).
RECURSIVE SkipSpaces(_, _)
SkipSpaces(s, i) == IF SpaceAt(s, i) THEN SkipSpaces(s, i + 1) ELSE i

\* The first index from i that holds no word character.
RECURSIVE SkipWord(_, _)
SkipWord(s, i) == IF i <= Len(s) /\ IsWordChar(Ch(s, i)) THEN SkipWord(s, i + 1) ELSE i

\* The first index from i that holds no digit.
RECURSIVE SkipDigits(_, _)
SkipDigits(s, i) == IF i <= Len(s) /\ IsDigitChar(Ch(s, i)) THEN SkipDigits(s, i + 1) ELSE i

\* The first index from i that holds c (Len(s) + 1: none).
RECURSIVE IndexOfChar(_, _, _)
IndexOfChar(s, c, i) == IF i <= Len(s) /\ Ch(s, i) # c THEN IndexOfChar(s, c, i + 1) ELSE i

\* String.prototype.split(c) for a one-character separator.
RECURSIVE SplitChar(_, _)
SplitChar(s, c) ==
    LET k == IndexOfChar(s, c, 1)
    IN  IF k > Len(s) THEN <<s>>
        ELSE <<SubSeq(s, 1, k - 1)>> \o SplitChar(SubSeq(s, k + 1, Len(s)), c)

\* \s+AND\s+ at index i: the index after the match (0: no match).
AndSeparatorAt(s, i) ==
    LET q == SkipSpaces(s, i)
    IN  IF SpaceAt(s, i) /\ LitAt(s, q, "AND") /\ SpaceAt(s, q + 3)
        THEN SkipSpaces(s, q + 3) ELSE 0

\* String.prototype.split(/\s+AND\s+/i)
RECURSIVE SplitAnd(_)
SplitAnd(s) ==
    LET starts == {i \in 1..Len(s) : AndSeparatorAt(s, i) # 0}
    IN  IF starts = {} THEN <<s>>
        ELSE <<SubSeq(s, 1, Min(starts) - 1)>>
                 \o SplitAnd(SubSeq(s, AndSeparatorAt(s, Min(starts)), Len(s)))

IsQuoteChar(c) == c = "'" \/ c = "\""

\* String.prototype.replace(/^['"]|['"]$/g, '')
StripQuotes(s) ==
    LET t == IF s # "" /\ IsQuoteChar(Head(s)) THEN Tail(s) ELSE s
    IN  IF t # "" /\ IsQuoteChar(Ch(t, Len(t))) THEN SubSeq(t, 1, Len(t) - 1) ELSE t

\* An array index: the canonical numeral of an integer below 2^32 - 1.
IsArrayIndex(key) ==
    \/ key = "0"
    \/ /\ IsDigits(key)
       /\ Head(key) # "0"
       /\ Len(key) < 10 \/ (Len(key) = 10 /\ StrLess(key, "4294967295"))

\* Whether array index a is the smaller one: the shorter numeral, or the
\* earlier of two of one length.
IndexLess(a, b) == Len(a) < Len(b) \/ (Len(a) = Len(b) /\ StrLess(a, b))

\* obj[key] = value on an object kept as its entries, in the order of
\* Object.keys: the array indices ascending, then the other keys in the
\* order they were first set.
ObjectSet(obj, key, value) ==
    IF \E i \in 1..Len(obj) : obj[i][1] = key
    THEN [i \in 1..Len(obj) |-> IF obj[i][1] = key THEN <<key, value>> ELSE obj[i]]
    ELSE IF IsArrayIndex(key)
    THEN LET k == Cardinality({i \in 1..Len(obj) :
                        IsArrayIndex(obj[i][1]) /\ IndexLess(obj[i][1], key)})
         IN  SubSeq(obj, 1, k) \o <<(<<key, value>>)>> \o SubSeq(obj, k + 1, Len(obj))
    ELSE Append(obj, <<key, value>>)

\* The forEach over the pieces of a WHERE or SET clause: a piece that does
\* not split in two at '=' is skipped.
RECURSIVE AssignPairs(_, _, _)
AssignPairs(pieces, i, obj) ==
    IF i > Len(pieces) THEN obj
    ELSE LET parts == SplitChar(pieces[i], "=")
         IN  AssignPairs(pieces, i + 1,
                 IF Len(parts) = 2
                 THEN ObjectSet(obj, Trim(parts[1]), Str(StripQuotes(Trim(parts[2]))))
                 ELSE obj)

\* split(',').map(x => x.trim())
TrimAll(pieces) == [i \in 1..Len(pieces) |-> Trim(pieces[i])]

\* A group that follows keyword\s+ and is followed by the rest of the
\* pattern: <<first, last>> of the group, <<0, 0>> when there is no match. a
\* is the index after the keyword; least is the least length of the group
\* (0 for .*?, 1 for .+?); follows holds the indices where the rest of the
\* pattern matches.
LazyGroup(s, a, least, follows) ==
    LET q == SkipSpaces(s, a)
        ok(g) == {e \in (g + least - 1)..Len(s) : (e + 1) \in follows}
        gs == {g \in (a + 1)..q : ok(g) # {}}
    IN  IF q = a \/ gs = {} THEN <<0, 0>>
        ELSE <<Max(gs), Min(ok(Max(gs)))>>

\* \s+FROM\s+\w+ at index j
FromFollows(s, j) ==
    LET q == SkipSpaces(s, j)
        r == SkipSpaces(s, q + 4)
    IN  /\ SpaceAt(s, j)
        /\ LitAt(s, q, "FROM")
        /\ SpaceAt(s, q + 4)
        /\ r <= Len(s)
        /\ IsWordChar(Ch(s, r))

\* \s+WHERE\s+(.+) at index j: the index where (.+) starts (0: no match)
WhereTailAt(s, j) ==
    LET q == SkipSpaces(s, j)
        r == SkipSpaces(s, q + 5)
    IN  IF SpaceAt(s, j) /\ LitAt(s, q, "WHERE") /\ SpaceAt(s, q + 5) /\ r <= Len(s)
        THEN r ELSE 0

\* /SELECT\s+(.*?)\s+FROM\s+\w+/i: the group of the leftmost match, as
\* <<first, last>>; <<0, 0>> when there is none.
SelectMatch(s) ==
    LET at(i) == IF LitAt(s, i, "SELECT")
                 THEN LazyGroup(s, i + 6, 0, {j \in 1..(Len(s) + 1) : FromFollows(s, j)})
                 ELSE <<0, 0>>
        starts == {i \in 1..Len(s) : at(i) # <<0, 0>>}
    IN  IF starts = {} THEN <<0, 0>> ELSE at(Min(starts))

\* /keyword\s+(.+?)(stop1|stop2|...|$)/i: the group of the leftmost match.
ClauseMatch(s, keyword, stops) ==
    LET follows == {j \in 1..(Len(s) + 1) : j = Len(s) + 1 \/ \E w \in stops : LitAt(s, j, w)}
        at(i) == IF LitAt(s, i, keyword)
                 THEN LazyGroup(s, i + Len(keyword), 1, follows)
                 ELSE <<0, 0>>
        starts == {i \in 1..Len(s) : at(i) # <<0, 0>>}
    IN  IF starts = {} THEN <<0, 0>> ELSE at(Min(starts))

\* /keyword\s+(\d+)/i: the group of the leftmost match.
NumberMatch(s, keyword) ==
    LET at(i) == LET q == SkipSpaces(s, i + Len(keyword))
                 IN  IF /\ LitAt(s, i, keyword)
                        /\ q > i + Len(keyword)
                        /\ SkipDigits(s, q) > q
                     THEN <<q, SkipDigits(s, q) - 1>> ELSE <<0, 0>>
        starts == {i \in 1..Len(s) : at(i) # <<0, 0>>}
    IN  IF starts = {} THEN <<0, 0>> ELSE at(Min(starts))

Group(s, m) == SubSeq(s, m[1], m[2])

\* order.trim().split(/\s+/): the first two words of an ORDER BY key
OrderKey(order) ==
    LET t == Trim(order)
        w == IndexOfChar(t, " ", 1)
        rest == SubSeq(t, SkipSpaces(t, w), Len(t))
        w2 == IndexOfChar(rest, " ", 1)
    IN  [column |-> SubSeq(t, 1, w - 1),
         direction |-> IF rest = "" THEN Str("asc") ELSE Str(ToLowerCase(SubSeq(rest, 1, w2 - 1)))]

CommandOf(operation, args) == [threw |-> FALSE, error |-> "", operation |-> operation, args |-> args]
SqlError(message) == [threw |-> TRUE, error |-> message, operation |-> "", args |-> <<>>]

\* The SELECT branch
ConvertSelect(query) ==
    LET selectMatch == SelectMatch(query)
        fieldsPart == Trim(Group(query, selectMatch))
        whereMatch == ClauseMatch(query, "WHERE", {"ORDER BY", "LIMIT", "OFFSET"})
        whereObj == IF whereMatch = <<0, 0>> THEN <<>>
                    ELSE AssignPairs(SplitAnd(Trim(Group(query, whereMatch))), 1, <<>>)
        orderMatch == ClauseMatch(query, "ORDER BY", {"LIMIT", "OFFSET"})
        orders == LET parts == SplitChar(Trim(Group(query, orderMatch)), ",")
                  IN  [i \in 1..Len(parts) |-> OrderKey(parts[i])]
        limitMatch == NumberMatch(query, "LIMIT")
        offsetMatch == NumberMatch(query, "OFFSET")
        optionsObj ==
            (IF orderMatch = <<0, 0>> THEN <<>> ELSE <<(<<"orderBy", orders>>)>>)
            \o (IF limitMatch = <<0, 0>> THEN <<>>
                ELSE <<(<<"limit", Num(DigitsValue(Group(query, limitMatch)))>>)>>)
            \o (IF offsetMatch = <<0, 0>> THEN <<>>
                ELSE <<(<<"offset", Num(DigitsValue(Group(query, offsetMatch)))>>)>>)
            \o (IF fieldsPart # "*" /\ fieldsPart # ""
                THEN <<(<<"selectFields", TrimAll(SplitChar(fieldsPart, ","))>>)>> ELSE <<>>)
    IN  IF selectMatch = <<0, 0>> THEN SqlError("Invalid SELECT syntax")
        ELSE CommandOf("select", [where |-> whereObj, options |-> optionsObj])

\* /UPDATE\s+\w+\s+SET\s+(.+?)\s+WHERE\s+(.+)/i: <<first and last of the
\* SET group, first of the WHERE group>>; <<0, 0, 0>> when there is no match.
UpdateMatch(s) ==
    LET at(i) ==
            LET q == SkipSpaces(s, i + 6)
                w == SkipWord(s, q)
                q2 == SkipSpaces(s, w)
                g == LazyGroup(s, q2 + 3, 1, {j \in 1..(Len(s) + 1) : WhereTailAt(s, j) # 0})
            IN  IF /\ LitAt(s, i, "UPDATE")
                   /\ q > i + 6
                   /\ w > q
                   /\ q2 > w
                   /\ LitAt(s, q2, "SET")
                   /\ g # <<0, 0>>
                THEN <<g[1], g[2], WhereTailAt(s, g[2] + 1)>> ELSE <<0, 0, 0>>
        starts == {i \in 1..Len(s) : at(i) # <<0, 0, 0>>}
    IN  IF starts = {} THEN <<0, 0, 0>> ELSE at(Min(starts))

\* The UPDATE branch
ConvertUpdate(query) ==
    LET updateMatch == UpdateMatch(query)
        setPart == Trim(SubSeq(query, updateMatch[1], updateMatch[2]))
        wherePart == Trim(SubSeq(query, updateMatch[3], Len(query)))
        newData == AssignPairs(SplitChar(setPart, ","), 1, <<>>)
        whereObj == AssignPairs(SplitAnd(wherePart), 1, <<>>)
    IN  IF updateMatch = <<0, 0, 0>> THEN SqlError("Invalid UPDATE syntax")
        ELSE CommandOf("update", [where |-> whereObj, newData |-> newData])

\* /DELETE\s+FROM\s+\w+\s+WHERE\s+(.+)/i: the first index of the group (0: no match)
DeleteMatch(s) ==
    LET at(i) ==
            LET q == SkipSpaces(s, i + 6)
                q2 == SkipSpaces(s, q + 4)
                w == SkipWord(s, q2)
            IN  IF /\ LitAt(s, i, "DELETE")
                   /\ q > i + 6
                   /\ LitAt(s, q, "FROM")
                   /\ q2 > q + 4
                   /\ w > q2
                THEN WhereTailAt(s, w) ELSE 0
        starts == {i \in 1..Len(s) : at(i) # 0}
    IN  IF starts = {} THEN 0 ELSE at(Min(starts))

\* The DELETE branch
ConvertDelete(query) ==
    LET deleteMatch == DeleteMatch(query)
        wherePart == Trim(SubSeq(query, deleteMatch, Len(query)))
    IN  IF deleteMatch = 0 THEN SqlError("Invalid DELETE syntax")
        ELSE CommandOf("delete", [where |-> AssignPairs(SplitAnd(wherePart), 1, <<>>)])

\* \s*\(([^)]+)\) at index j: <<first, last>> of the group (<<0, 0>>: no match)
ParenGroupAt(s, j) ==
    LET q == SkipSpaces(s, j)
        c == IndexOfChar(s, ")", q + 1)
    IN  IF q <= Len(s) /\ Ch(s, q) = "(" /\ c <= Len(s) /\ c > q + 1
        THEN <<q + 1, c - 1>> ELSE <<0, 0>>

\* /CREATE\s+TABLE\s+\w+\s*\(([^)]+)\)/i: the group of the leftmost match
CreateMatch(s) ==
    LET at(i) ==
            LET q == SkipSpaces(s, i + 6)
                q2 == SkipSpaces(s, q + 5)
                w == SkipWord(s, q2)
            IN  IF /\ LitAt(s, i, "CREATE")
                   /\ q > i + 6
                   /\ LitAt(s, q, "TABLE")
                   /\ q2 > q + 5
                   /\ w > q2
                THEN ParenGroupAt(s, w) ELSE <<0, 0>>
        starts == {i \in 1..Len(s) : at(i) # <<0, 0>>}
    IN  IF starts = {} THEN <<0, 0>> ELSE at(Min(starts))

\* The CREATE TABLE branch
ConvertCreate(query) ==
    LET match == CreateMatch(query)
    IN  IF match = <<0, 0>> THEN SqlError("Invalid CREATE TABLE syntax")
        ELSE CommandOf("createTable", [columns |-> TrimAll(SplitChar(Group(query, match), ","))])

\* /INSERT\s+INTO\s+\w+\s*\(([^)]+)\)\s+VALUES\s*\(([^)]+)\)/i: the two
\* groups of the leftmost match, <<first, last, first, last>>
InsertMatch(s) ==
    LET none == <<0, 0, 0, 0>>
        at(i) ==
            LET q == SkipSpaces(s, i + 6)
                q2 == SkipSpaces(s, q + 4)
                w == SkipWord(s, q2)
                g1 == ParenGroupAt(s, w)
                v == SkipSpaces(s, g1[2] + 2)
                g2 == ParenGroupAt(s, v + 6)
            IN  IF /\ LitAt(s, i, "INSERT")
                   /\ q > i + 6
                   /\ LitAt(s, q, "INTO")
                   /\ q2 > q + 4
                   /\ w > q2
                   /\ g1 # <<0, 0>>
                   /\ v > g1[2] + 2
                   /\ LitAt(s, v, "VALUES")
                   /\ g2 # <<0, 0>>
                THEN <<g1[1], g1[2], g2[1], g2[2]>> ELSE none
        starts == {i \in 1..Len(s) : at(i) # none}
    IN  IF starts = {} THEN none ELSE at(Min(starts))

\* columns.forEach((col, index) => obj[col] = values[index])
RECURSIVE ZipObject(_, _, _, _)
ZipObject(columns, values, i, obj) ==
    IF i > Len(columns) THEN obj
    ELSE ZipObject(columns, values, i + 1,
             ObjectSet(obj, columns[i], IF i <= Len(values) THEN Str(values[i]) ELSE Undefined))

\* The INSERT INTO branch
ConvertInsert(query) ==
    LET match == InsertMatch(query)
        columns == TrimAll(SplitChar(SubSeq(query, match[1], match[2]), ","))
        raw == TrimAll(SplitChar(SubSeq(query, match[3], match[4]), ","))
        values == [i \in 1..Len(raw) |-> StripQuotes(raw[i])]
    IN  IF match = <<0, 0, 0, 0>> THEN SqlError("Invalid INSERT INTO syntax")
        ELSE CommandOf("insertOne", [obj |-> ZipObject(columns, values, 1, <<>>)])

SqlToNosqlConverter(sqlQuery_) ==
    LET query == Trim(sqlQuery_)
        upperQuery == ToUpperCase(query)
    IN  IF StartsWith(upperQuery, "CREATE TABLE") THEN ConvertCreate(query)
        ELSE IF StartsWith(upperQuery, "DROP TABLE") THEN CommandOf("dropTable", <<>>)
        ELSE IF StartsWith(upperQuery, "TRUNCATE TABLE") THEN CommandOf("truncateTable", <<>>)
        ELSE IF StartsWith(upperQuery, "INSERT INTO") THEN ConvertInsert(query)
        ELSE IF StartsWith(upperQuery, "SELECT") THEN ConvertSelect(query)
        ELSE IF StartsWith(upperQuery, "UPDATE") THEN ConvertUpdate(query)
        ELSE IF StartsWith(upperQuery, "DELETE") THEN ConvertDelete(query)
        ELSE IF upperQuery = "GET TABLES" THEN CommandOf("getTables", <<>>)
        ELSE IF upperQuery = "SHOW TABLE DETAIL" THEN CommandOf("showTableDetail", <<>>)
        ELSE SqlError("Unsupported SQL operation")

(***************************************************************************)
(* _applySelectFields and select. An array is a record that holds its      *)
(* items; a projected row is an object kept as its entries.                *)
(***************************************************************************)
Arr(items) == [t |-> "array", items |-> items]

\* if (v): whether a value is truthy
Truthy(v) ==
    /\ v.t \notin {"undefined", "null", "NaN"}
    /\ ~(v.t = "string" /\ v.s = "")
    /\ ~(v.t = "number" /\ v.n = 0)

\* fields.forEach(f => newObj[f] = row[f]), from field i on
RECURSIVE ProjectRow(_, _, _, _)
ProjectRow(row, fields_, i, newObj) ==
    IF i > Len(fields_) THEN newObj
    ELSE ProjectRow(row, fields_, i + 1, ObjectSet(newObj, fields_[i], RowGet(row, fields_[i])))

\* data.map(row => ...)
ApplySelectFieldsResult(rows, fields_) ==
    [i \in 1..Len(rows) |-> ProjectRow(rows[i], fields_, 1, <<>>)]

\* data.slice(start) and data.slice(0, end), start and end naturals
SliceFrom(rows, start) == SubSeq(rows, start + 1, Len(rows))
SliceTo(rows, end) == SubSeq(rows, 1, IF end < Len(rows) THEN end ELSE Len(rows))

\* select(where, options) on the values the store gives: the outcomes, one
\* for each order the sorting may give.
SelectResults(values, where_, options_) ==
    LET Rest(rows) ==
            LET a == IF Truthy(options_.offset) THEN SliceFrom(rows, options_.offset.n) ELSE rows
                b == IF Truthy(options_.limit) THEN SliceTo(a, options_.limit.n) ELSE a
            IN  IF Truthy(options_.selectFields)
                THEN ApplySelectFieldsResult(b, options_.selectFields.items) ELSE b
    IN  UNION {IF filtered.threw THEN {Raised}
               ELSE {IF r.threw THEN Raised ELSE Returned(Rest(r.rows)) :
                         r \in IF Truthy(options_.orderBy)
                               THEN ApplySortingResults(filtered.rows, options_.orderBy.items)
                               ELSE {filtered}} :
                  filtered \in {ApplyFilterResult(GetSheetData(values), where_)}}

(***************************************************************************)
(* The row store. sheet holds the values of the sheet as values.get gives  *)
(* them: a row ends at its last cell that is not empty, the sheet at its   *)
(* last row that is not empty, and an empty row in between is <<>>.        *)
(***************************************************************************)
RECURSIVE TrimCells(_)
TrimCells(cells) ==
    IF cells # <<>> /\ cells[Len(cells)] = ""
    THEN TrimCells(SubSeq(cells, 1, Len(cells) - 1)) ELSE cells

RECURSIVE TrimRows(_)
TrimRows(values) ==
    IF values # <<>> /\ values[Len(values)] = <<>>
    THEN TrimRows(SubSeq(values, 1, Len(values) - 1)) ELSE values

Normal(values) == TrimRows([i \in 1..Len(values) |-> TrimCells(values[i])])

RowAt(values, r) == IF r <= Len(values) THEN values[r] ELSE <<>>

\* spreadsheets.values.update on the range A<r>:<last column><r>
ValuesUpdate(values, r, cells) ==
    LET n == Max({r, Len(values)})
        old == RowAt(values, r)
        width == Max({Len(old), Len(cells)})
    IN  Normal([i \in 1..n |->
            IF i = r THEN [j \in 1..width |-> IF j <= Len(cells) THEN cells[j] ELSE old[j]]
            ELSE RowAt(values, i)])

\* A delete that takes row r out of the sheet: the rows below move one up.
DeleteDimension(values, r, n) ==
    IF r > Len(values) THEN values
    ELSE SubSeq(values, 1, r - 1) \o SubSeq(values, r + 1, Len(values))

\* spreadsheets.values.clear on the first n cells of row r
ValuesClear(values, r, n) == ValuesUpdate(values, r, [j \in 1..n |-> ""])

\* The range A2:Z1000 of truncateTable.
TruncateFirstRow == 2
TruncateLastRow == 1000
TruncateColumns == 26

\* spreadsheets.values.clear on the range A<top>:<column width><bottom>
ValuesClearRange(values, top, bottom, width) ==
    Normal([i \in 1..Len(values) |->
        IF i \in top..bottom
        THEN [j \in 1..Len(values[i]) |-> IF j <= width THEN "" ELSE values[i][j]]
        ELSE values[i]])

\* The rows written one below the other from row r on.
RECURSIVE WriteRows(_, _, _)
WriteRows(values, r, rows) ==
    IF rows = <<>> THEN values
    ELSE WriteRows(ValuesUpdate(values, r, Head(rows)), r + 1, Tail(rows))

\* spreadsheets.values.append on the range A:<last column>: the rows go
\* below the last row of the sheet that holds data.
ValuesAppend(values, rows) == WriteRows(values, Len(values) + 1, rows)

\* A batchUpdate that makes no room: the sheet is left as it is.
WithoutInsertDimension(values, r) == values

\* spreadsheets.batchUpdate with insertDimension of one row at startIndex
\* r - 1: the rows from r on move one down.
InsertDimension(values, r) ==
    IF r > Len(values) THEN values
    ELSE SubSeq(values, 1, r - 1) \o <<(<<>>)>> \o SubSeq(values, r, Len(values))

\* obj[key] of an object kept as its entries
ObjectGet(obj, key) ==
    IF \E i \in 1..Len(obj) : obj[i][1] = key
    THEN obj[CHOOSE i \in 1..Len(obj) : obj[i][1] = key][2]
    ELSE Undefined

ObjectKeys(obj) == [i \in 1..Len(obj) |-> obj[i][1]]

\* { ...obj, ...more } from entry i of more on
RECURSIVE Spread(_, _, _)
Spread(obj, more, i) ==
    IF i > Len(more) THEN obj
    ELSE Spread(ObjectSet(obj, more[i][1], more[i][2]), more, i + 1)

\* headers.map(h => rowObj[h] || '')
NewRow(headers, rowObj) ==
    [j \in 1..Len(headers) |-> JsToString(OrEmpty(ObjectGet(rowObj, headers[j])))]

\* Object.keys(data[0] || {}).filter(h => h !== '_row'): the keys of the
\* first row in the order of Object.keys.
HeaderKeys(values) ==
    IF Len(values) <= 1 THEN <<>>
    ELSE LET NotRow(k) == k # "_row"
         IN  SelectSeq(ObjectKeys(ZipObject(values[1], <<>>, 1, <<>>)), NotRow)

\* headers.map(h => newData[h] ?? row[h])
UpdatedRow(headers, row, newData) ==
    [j \in 1..Len(headers) |->
        LET v == ObjectGet(newData, headers[j])
        IN  JsToString(IF v.t \in {"undefined", "null"} THEN RowGet(row, headers[j]) ELSE v)]

\* The cells of a row of a snapshot, as the sheet held them.
SnapshotCells(headers, row) == TrimCells([j \in 1..Len(headers) |-> JsToString(RowGet(row, headers[j]))])

\* A write of the updated row that leaves the sheet alone when the row at
\* the position is no longer the row of the snapshot.
WriteUpdatedRowIfUnmoved(values, headers, row, newData) ==
    IF RowAt(values, row._row.n) = SnapshotCells(headers, row)
    THEN ValuesUpdate(values, row._row.n, UpdatedRow(headers, row, newData))
    ELSE values

\* The values.update of update: the updated row goes to the position the
\* row had when the sheet was read.
WriteUpdatedRow(values, headers, row, newData) ==
    ValuesUpdate(values, row._row.n, UpdatedRow(headers, row, newData))

(***************************************************************************)
(* The bounded inputs.                                                     *)
(***************************************************************************)
\* The headers of the sheets that are read.
Headers == {<<"name">>, <<"age">>, <<"birthDate">>, <<"created_at">>, <<"name", "age">>}

\* A column no sheet has.
AbsentColumn == "email"

DateCells == {"2024-03-01", "2024-03-15", "2024-03", "unknown"}

\* The cells a column may hold; a sheet of two columns draws from fewer,
\* and every date cell of a sheet to be sorted is a date.
CellsOf(headers, column, sorted) ==
    CASE column = "name" -> IF Len(headers) = 1 THEN {"Alice", "alice", ""} ELSE {"Alice", "alice"}
      [] column = "age" -> IF Len(headers) = 1 THEN {"25", "7", "n/a"} ELSE {"25", "7"}
      [] column = "2024" -> {"x"}
      [] OTHER -> IF sorted THEN DateCells \ {"unknown"} ELSE DateCells

CellRows(headers, sorted) ==
    {cells \in [1..Len(headers) -> UNION {CellsOf(headers, headers[j], sorted) : j \in 1..Len(headers)}] :
        \A j \in 1..Len(headers) : cells[j] \in CellsOf(headers, headers[j], sorted)}

SeqsUpTo(S, n) == UNION {[1..k -> S] : k \in 0..n}

\* The sheets of at most n data rows under a header.
Sheets(headers, n, sorted) ==
    {<<headers>> \o body : body \in SeqsUpTo(CellRows(headers, sorted), n)}

Operators == {">", "<", ">=", "<=", "!=", "=", "contains", "like"}

\* The values a condition on a column may compare with; Undefined is a
\* condition object without a value.
ValuesOf(column) ==
    CASE column = "name" -> {Str("ALICE"), Str("LI"), Str(""), Num(25), Undefined}
      [] column = "age" -> {Num(25), Str("7"), Str(""), Str("N/A"), Null, Undefined}
      [] column = AbsentColumn -> {Str(""), Str("x"), Num(0), Undefined}
      [] OTHER -> {Str("2024-03-01"), Str("2024-03"), Str("unknown"), Undefined}

LiteralsOf(column) ==
    CASE column = "name" -> {Str("Alice"), Str("ALICE"), Str(""), Num(0), Null}
      [] column = "age" -> {Num(25), Str("25"), Str(" 25"), Num(7), Str("n/a"), Undefined}
      [] column = AbsentColumn -> {Str(""), Num(0), Str("x"), Null}
      [] OTHER -> {Str("2024-03-01"), Str("2024-03"), Str("")}

ConditionsOf(column) ==
    LiteralsOf(column)
    \cup {Cond(Str(op), v) : op \in Operators, v \in ValuesOf(column)}
    \cup {Cond(Undefined, v) : v \in ValuesOf(column) \ {Undefined}}

\* The conditions that filters of two entries are built from.
CoreConditionsOf(column) ==
    CASE column = "name" -> {Str("Alice"), Cond(Str("contains"), Str("LI")), Cond(Str("="), Undefined)}
      [] column = "age" -> {Num(25), Cond(Str(">"), Num(7)), Cond(Str("like"), Num(25))}
      [] column = AbsentColumn -> {Str(""), Str("x"), Cond(Str("="), Undefined)}
      [] OTHER -> {Str("2024-03-01"), Cond(Str("<="), Str("2024-03-01")), Cond(Str("!="), Str("unknown"))}

FilterKeys(headers) == Range(headers) \cup {AbsentColumn}

Filters(headers) ==
    {<<>>}
    \cup UNION {{<<(<<k, c>>)>> : c \in ConditionsOf(k)} : k \in FilterKeys(headers)}
    \cup UNION {UNION {{<<(<<k1, c1>>), (<<k2, c2>>)>> :
                            c1 \in CoreConditionsOf(k1), c2 \in CoreConditionsOf(k2)} :
                       k2 \in FilterKeys(headers) \ {k1}} : k1 \in FilterKeys(headers)}

Directions == {Str("asc"), Str("desc")}

\* One key in either direction or with none given, or two keys on the two
\* columns of a sheet.
OrderBys(headers) ==
    {<<>>}
    \cup {<<[column |-> k, direction |-> d]>> :
            k \in FilterKeys(headers), d \in Directions \cup {Undefined}}
    \cup {ob \in {<<[column |-> k1, direction |-> d1], [column |-> k2, direction |-> d2]>> :
                        k1 \in Range(headers), k2 \in Range(headers),
                        d1 \in Directions, d2 \in Directions} :
                ob[1].column # ob[2].column}

\* The headers of the sheets that select reads; 2024 is a column name that
\* is an array index.
SelectHeaders == {<<"name">>, <<"2024", "name">>}

FieldNames(headers) == Range(headers) \cup {"_row", AbsentColumn}

\* The lists of at most MaxFields different fields.
FieldLists(headers) ==
    {f \in SeqsUpTo(FieldNames(headers), MaxFields) :
        \A i, j \in 1..Len(f) : f[i] = f[j] => i = j}

SelectFilters == {<<>>, <<(<<"name", Str("Alice")>>)>>}

\* Each option is given or not; offset and limit run from 0.
SelectOptions ==
    [orderBy : {Undefined, Arr(<<[column |-> "name", direction |-> Str("desc")]>>)},
     offset : {Undefined} \cup {Num(k) : k \in 0..MaxSlice},
     limit : {Undefined} \cup {Num(n) : n \in 0..MaxSlice},
     selectFields : {Undefined, Arr(<<>>), Arr(<<"name">>), Arr(<<"_row", "name">>)}]

\* The statements: the text up to the WHERE clause, and what may follow it.
SqlHeads == {"SELECT * FROM t", "select name, age from t", "UPDATE t SET name = 'Bob'", "DELETE FROM t"}

SqlTailsOf(head) ==
    IF StartsWith(ToUpperCase(head), "SELECT")
    THEN {"", " ORDER BY age DESC", " LIMIT 5 OFFSET 2"}
    ELSE {""}

\* The conditions of a WHERE clause: three of the form col = value, and four
\* that are not.
EqualityConditions == {"id = '1'", "name = \"Bob\"", "age=25"}
OtherConditions == {"age > 5", "age >= 5", "age", "a = b = c"}
SqlConditions == EqualityConditions \cup OtherConditions

RECURSIVE JoinWith(_, _)
JoinWith(pieces, sep) ==
    IF Len(pieces) = 0 THEN ""
    ELSE IF Len(pieces) = 1 THEN pieces[1]
    ELSE pieces[1] \o sep \o JoinWith(Tail(pieces), sep)

SqlText(parts) ==
    parts.head
    \o (IF parts.conds = <<>> THEN "" ELSE " WHERE " \o JoinWith(parts.conds, " AND "))
    \o parts.tail

\* Assignment lists: pairs col = 'value' whose values hold no quote character.
AssignColumns == {"id", "name"}
AssignValues == {"Bob", "a=b", "no limit", "salt and pepper", "x,y"}

Pair(column, value) == [column |-> column, value |-> value]

PairLists ==
    {pairs \in SeqsUpTo({Pair(c, v) : c \in AssignColumns, v \in AssignValues}, MaxConditions) :
        /\ pairs # <<>>
        /\ \A i, j \in 1..Len(pairs) : i # j => pairs[i].column # pairs[j].column}

PairTexts(pairs) ==
    [i \in 1..Len(pairs) |-> pairs[i].column \o " = '" \o pairs[i].value \o "'"]

Assignments(statement, wherePairs, setPairs) ==
    [kind |-> "assignments", statement |-> statement, wherePairs |-> wherePairs, setPairs |-> setPairs]

AssignmentStatements ==
    {Assignments(st, w, <<>>) : st \in {"SELECT", "DELETE"}, w \in PairLists}
    \cup {Assignments("UPDATE", w, <<Pair("name", "Bob")>>) : w \in PairLists}
    \cup {Assignments("UPDATE", <<Pair("id", "Bob")>>, n) : n \in PairLists}

AssignmentText(parts) ==
    (IF parts.statement = "SELECT" THEN "SELECT * FROM t"
     ELSE IF parts.statement = "DELETE" THEN "DELETE FROM t"
     ELSE "UPDATE t SET " \o JoinWith(PairTexts(parts.setPairs), ", "))
    \o " WHERE " \o JoinWith(PairTexts(parts.wherePairs), " AND ")

\* SELECT statements: a field list (none: *), ORDER BY keys, LIMIT and OFFSET
\* (-1: not written), written in that order.
OrderKeyOf(column, direction) == [column |-> column, direction |-> direction]

SelectStatements ==
    [kind : {"select"},
     fieldList : {<<>>, <<"name">>, <<"name", "age">>},
     keys : {<<>>,
             <<OrderKeyOf("age", "")>>,
             <<OrderKeyOf("age", "DESC")>>,
             <<OrderKeyOf("name", "asc"), OrderKeyOf("age", "Desc")>>,
             <<OrderKeyOf("credit_limit", "DESC")>>},
     limit : {-1, 0, 5, 10},
     offset : {-1, 2}]

OrderKeyTexts(keys) ==
    [i \in 1..Len(keys) |->
        keys[i].column \o (IF keys[i].direction = "" THEN "" ELSE " " \o keys[i].direction)]

SelectText(parts) ==
    "SELECT " \o (IF parts.fieldList = <<>> THEN "*" ELSE JoinWith(parts.fieldList, ", ")) \o " FROM t"
    \o (IF parts.keys = <<>> THEN "" ELSE " ORDER BY " \o JoinWith(OrderKeyTexts(parts.keys), ", "))
    \o (IF parts.limit < 0 THEN "" ELSE " LIMIT " \o NatToString(parts.limit))
    \o (IF parts.offset < 0 THEN "" ELSE " OFFSET " \o NatToString(parts.offset))

\* SELECT statements whose clauses are written in any order.
ClauseNames == <<"WHERE", "ORDER BY", "LIMIT", "OFFSET">>

ClauseTextOf(clause) ==
    CASE clause = "WHERE" -> "WHERE id = 1"
      [] clause = "ORDER BY" -> "ORDER BY age"
      [] clause = "LIMIT" -> "LIMIT 5"
      [] clause = "OFFSET" -> "OFFSET 2"

ClauseLists ==
    {clauses \in SeqsUpTo(Range(ClauseNames), MaxClauses) :
        \A i, j \in 1..Len(clauses) : i # j => clauses[i] # clauses[j]}

ClauseStatements == {[kind |-> "clauses", clauses |-> c] : c \in ClauseLists}

ClausesText(parts) ==
    "SELECT * FROM t"
    \o (IF parts.clauses = <<>> THEN ""
        ELSE " " \o JoinWith([i \in 1..Len(parts.clauses) |-> ClauseTextOf(parts.clauses[i])], " "))

\* Statements of a recognized leading keyword that lack a required part.
Malformed(keyword, missing, text) ==
    [kind |-> "malformed", keyword |-> keyword, missing |-> missing, text |-> text]

MalformedStatements ==
    {Malformed("CREATE TABLE", "table", "CREATE TABLE (a, b)"),
     Malformed("CREATE TABLE", "columns", "CREATE TABLE t"),
     Malformed("CREATE TABLE", "columns", "create table t ()"),
     Malformed("DROP TABLE", "table", "DROP TABLE"),
     Malformed("DROP TABLE", "table", "drop table "),
     Malformed("TRUNCATE TABLE", "table", "TRUNCATE TABLE"),
     Malformed("INSERT INTO", "table", "INSERT INTO (a) VALUES (1)"),
     Malformed("INSERT INTO", "columns", "INSERT INTO t VALUES (1)"),
     Malformed("INSERT INTO", "VALUES", "INSERT INTO t (a)"),
     Malformed("INSERT INTO", "VALUES", "insert into t (a) (1)"),
     Malformed("SELECT", "FROM", "SELECT name"),
     Malformed("SELECT", "FROM", "SELECT * WHERE id = 1"),
     Malformed("SELECT", "table", "SELECT * FROM"),
     Malformed("UPDATE", "table", "UPDATE SET a = 1 WHERE id = 1"),
     Malformed("UPDATE", "SET", "UPDATE t WHERE id = 1"),
     Malformed("UPDATE", "WHERE", "UPDATE t SET a = 1"),
     Malformed("DELETE", "FROM", "DELETE t WHERE id = 1"),
     Malformed("DELETE", "table", "DELETE FROM WHERE id = 1"),
     Malformed("DELETE", "WHERE", "DELETE FROM t"),
     Malformed("DELETE", "WHERE", "delete from t where")}

\* The statements without arguments, in any case and with white space around
\* them, alone or with something after them; and texts that begin with no
\* recognized keyword.
Casings == {"upper", "lower", "mixed"}
Paddings == {"", " ", "  "}
Extras == {"", " users", " x y", "S"}

Cased(text, casing) ==
    CASE casing = "upper" -> ToUpperCase(text)
      [] casing = "lower" -> ToLowerCase(text)
      [] casing = "mixed" -> IF text = "" THEN "" ELSE Head(text) \o ToLowerCase(Tail(text))

NonStandardStatements ==
    [kind : {"nonstandard"},
     base : {"GET TABLES", "SHOW TABLE DETAIL"},
     casing : Casings,
     before : Paddings,
     after : Paddings,
     extra : Extras]

OtherTexts ==
    {"", " ", "GET", "GETTABLES", "GET  TABLES", "SHOW TABLES", "SHOW TABLE", "EXPLAIN SELECT 1",
     "ALTER TABLE t", "CREATE t", "DROP t", "INSERT t", "TABLES GET", "( SELECT 1 )"}

OtherStatements == {[kind |-> "other", text |-> t] : t \in OtherTexts}

NonStandardText(parts) ==
    parts.before \o Cased(parts.base, parts.casing) \o Cased(parts.extra, parts.casing) \o parts.after

StatementText(parts) ==
    CASE parts.kind = "assignments" -> AssignmentText(parts)
      [] parts.kind = "select" -> SelectText(parts)
      [] parts.kind = "clauses" -> ClausesText(parts)
      [] parts.kind = "malformed" -> parts.text
      [] parts.kind = "nonstandard" -> NonStandardText(parts)
      [] parts.kind = "other" -> parts.text

\* The callers that use one sheet at the same time.
Callers == {"a", "b"}

StoreHeaders == <<"id", "name">>

StoreRows == {<<"1", "Alice">>, <<"2", "Bob">>}

StoreSheets == {<<StoreHeaders>> \o body : body \in SeqsUpTo(StoreRows, MaxStoreRows)}

\* A call of a public operation that has not started.
Call(name, where_, newData_, many) ==
    [name |-> name, fn |-> name, pc |-> "start", where |-> where_, newData |-> newData_,
     many |-> many, rows |-> <<>>, headers |-> <<>>, target |-> 0,
     uniqueKey |-> "", ignoreEmptyRows |-> FALSE, columns |-> Undefined,
     written |-> <<>>, action |-> "", row |-> 0, error |-> ""]

WhereBob == <<(<<"name", Str("Bob")>>)>>

Carol == <<(<<"id", Str("3")>>), (<<"name", Str("Carol")>>)>>

Calls ==
    {Call("select", WhereBob, <<>>, <<>>),
     Call("insertOne", <<>>, Carol, <<>>),
     Call("insertMany", <<>>, <<>>, <<Carol, <<(<<"id", Str("4")>>)>>>>),
     Call("update", WhereBob, <<(<<"name", Str("Bobby")>>)>>, <<>>),
     Call("delete", WhereBob, <<>>, <<>>),
     Call("updateOrInsert", WhereBob, <<(<<"id", Str("9")>>)>>, <<>>),
     Call("insertBeforeRow", WhereBob, <<(<<"id", Str("0")>>), (<<"name", Str("Zed")>>)>>, <<>>)}

\* A caller that has the sheet to itself.
Alone == {"a"}

\* Data rows of a table of StoreHeaders: full rows, a row without a name
\* and a blank row.
AloneRows == {<<"1", "Alice">>, <<"2", "Bob">>, <<"3">>, <<>>}

\* The tables as values.get returns them: no blank row at the end.
AloneSheets ==
    {<<StoreHeaders>> \o body : body \in
        {b \in SeqsUpTo(AloneRows, MaxAloneRows) : b = <<>> \/ b[Len(b)] # <<>>}}

\* A table with a column name that is an array index.
KeyedHeaders == <<"name", "2024">>

KeyedRows == {<<"Bob", "x">>, <<"Alice", "y">>}

KeyedSheets == {<<KeyedHeaders>> \o body : body \in SeqsUpTo(KeyedRows, MaxStoreRows)}

\* A table one column wider than the range that truncateTable clears.
WideHeaders == [j \in 1..(TruncateColumns + 1) |-> "c" \o NatToString(j)]

WideSheets ==
    {<<WideHeaders>> \o body : body \in SeqsUpTo(
        {[j \in 1..(TruncateColumns + 1) |-> IF j = k THEN "x" ELSE ""] :
            k \in {1, TruncateColumns, TruncateColumns + 1}}, MaxStoreRows)}

\* A call of updateOrInsertBeforeRow or updateOrInsertAfterRow
CallBeside(name, where_, uniqueKey, newData_, ignoreEmptyRows) ==
    [Call(name, where_, newData_, <<>>) EXCEPT !.uniqueKey = uniqueKey,
                                               !.ignoreEmptyRows = ignoreEmptyRows]

\* A call of createTable
CallCreateTable(columns) == [Call("createTable", <<>>, <<>>, <<>>) EXCEPT !.columns = columns]

Zed == <<(<<"id", Str("0")>>), (<<"name", Str("Zed")>>)>>

WhereFilters ==
    {<<>>, WhereBob, <<(<<"name", Str("")>>)>>, <<(<<"name", Num(0)>>)>>,
     <<(<<"name", Cond(Str("!="), Str("Bob"))>>)>>}

UpdateData ==
    {<<(<<"name", Str("Bobby")>>)>>,
     <<(<<"id", Null>>), (<<"name", Str("Bobby")>>), (<<"email", Str("b@x")>>)>>}

BesideData ==
    {<<(<<"id", Str("1")>>), (<<"name", Str("Al")>>)>>,
     <<(<<"id", Str("1")>>)>>,
     <<(<<"id", Str("7")>>)>>,
     <<(<<"name", Str("Nokey")>>)>>}

AloneCalls ==
    Calls
    \cup {Call("delete", w, <<>>, <<>>) : w \in WhereFilters}
    \cup {Call("update", w, d, <<>>) : w \in {<<>>, WhereBob}, d \in UpdateData}
    \cup {Call("insertAfterRow", WhereBob, Zed, <<>>), Call("truncateTable", <<>>, <<>>, <<>>)}
    \cup {CallBeside("updateOrInsertBeforeRow", WhereBob, "id", d, i) :
              d \in BesideData, i \in BOOLEAN}
    \cup {CallBeside("updateOrInsertAfterRow", WhereBob, "id", d, FALSE) : d \in BesideData}

KeyedCalls ==
    {Call("update", WhereBob, <<(<<"name", Str("Bobby")>>)>>, <<>>),
     Call("delete", WhereBob, <<>>, <<>>)}

WideCalls == {Call("truncateTable", <<>>, <<>>, <<>>)}

CreateTableCalls ==
    {CallCreateTable(columns) :
        columns \in {Undefined, Null, Str("id"), Arr(<<>>), Arr(<<"id">>),
                     Arr(<<"id", "name", "age">>)}}

\* The tables, the calls on them and whether the tab is there.
AloneStarts ==
    (AloneSheets \X AloneCalls \X {TRUE})
    \cup (KeyedSheets \X KeyedCalls \X {TRUE})
    \cup (WideSheets \X WideCalls \X {TRUE})
    \cup ((AloneSheets \cup {<<>>}) \X CreateTableCalls \X {TRUE})
    \cup ({<<>>} \X CreateTableCalls \X {FALSE})

NoReturn == [threw |-> FALSE, rows |-> <<>>]

\* select(where) without options: options = {}
NoOptions == [orderBy |-> Undefined, offset |-> Undefined, limit |-> Undefined, selectFields |-> Undefined]

\* No store is read or written by the call.
NoStore == sheet = <<>> /\ ops = <<>> /\ log = <<>> /\ tab = FALSE
NoParts == [head |-> "", conds |-> <<>>, tail |-> ""]

(***************************************************************************)
(* The calls.                                                              *)
(***************************************************************************)
InitFilter ==
    /\ pc = "call"
    /\ fn = "_applyFilter"
    /\ \E h \in Headers :
          /\ data \in {GetSheetData(v) : v \in Sheets(h, MaxFilterRows, FALSE)}
          /\ where \in Filters(h)
    /\ orderBy = <<>>
    /\ sqlQuery = ""
    /\ sqlParts = NoParts
    /\ ret = NoReturn
    /\ fields = <<>>
    /\ options = NoOptions
    /\ NoStore

InitSorting ==
    /\ pc = "call"
    /\ fn = "_applySorting"
    /\ \E h \in Headers :
          /\ data \in {GetSheetData(v) : v \in Sheets(h, MaxSortRows, TRUE)}
          /\ orderBy \in OrderBys(h)
    /\ where = <<>>
    /\ sqlQuery = ""
    /\ sqlParts = NoParts
    /\ ret = NoReturn
    /\ fields = <<>>
    /\ options = NoOptions
    /\ NoStore

InitSql ==
    /\ pc = "call"
    /\ fn = "_sqlToNosqlConverter"
    /\ \E h \in SqlHeads :
          sqlParts \in {[head |-> h, conds |-> c, tail |-> t] :
                            c \in SeqsUpTo(SqlConditions, MaxConditions), t \in SqlTailsOf(h)}
    /\ sqlQuery = SqlText(sqlParts)
    /\ data = <<>>
    /\ where = <<>>
    /\ orderBy = <<>>
    /\ ret = NoReturn
    /\ fields = <<>>
    /\ options = NoOptions
    /\ NoStore

InitSelectFields ==
    /\ pc = "call"
    /\ fn = "_applySelectFields"
    /\ \E h \in SelectHeaders :
          /\ data \in {GetSheetData(v) : v \in Sheets(h, MaxSelectRows, FALSE)}
          /\ fields \in FieldLists(h)
    /\ where = <<>>
    /\ orderBy = <<>>
    /\ sqlQuery = ""
    /\ sqlParts = NoParts
    /\ ret = NoReturn
    /\ options = NoOptions
    /\ NoStore

InitSelect ==
    /\ pc = "call"
    /\ fn = "select"
    /\ \E h \in SelectHeaders : sheet \in Sheets(h, MaxSelectRows, FALSE)
    /\ where \in SelectFilters
    /\ options \in SelectOptions
    /\ data = <<>>
    /\ orderBy = <<>>
    /\ fields = <<>>
    /\ sqlQuery = ""
    /\ sqlParts = NoParts
    /\ ret = NoReturn
    /\ ops = <<>>
    /\ log = <<>>
    /\ tab = TRUE

InitStatements ==
    /\ pc = "call"
    /\ fn = "_sqlToNosqlConverter"
    /\ sqlParts \in AssignmentStatements \cup SelectStatements \cup ClauseStatements
                        \cup MalformedStatements \cup NonStandardStatements \cup OtherStatements
    /\ sqlQuery = StatementText(sqlParts)
    /\ data = <<>>
    /\ where = <<>>
    /\ orderBy = <<>>
    /\ ret = NoReturn
    /\ fields = <<>>
    /\ options = NoOptions
    /\ NoStore

\* _applyFilter(data, where)
ApplyFilter ==
    /\ pc = "call"
    /\ fn = "_applyFilter"
    /\ ret' = ApplyFilterResult(data, where)
    /\ pc' = "return"
    /\ UNCHANGED <<fn, data, where, orderBy, sqlQuery, sqlParts, fields, options, sheet, ops, log, tab>>

\* _applySorting(data, orderBy); data keeps the rows as they were handed in.
ApplySorting ==
    /\ pc = "call"
    /\ fn = "_applySorting"
    /\ ret' \in ApplySortingResults(data, orderBy)
    /\ pc' = "return"
    /\ UNCHANGED <<fn, data, where, orderBy, sqlQuery, sqlParts, fields, options, sheet, ops, log, tab>>

\* _sqlToNosqlConverter(sqlQuery)
Convert ==
    /\ pc = "call"
    /\ fn = "_sqlToNosqlConverter"
    /\ ret' = SqlToNosqlConverter(sqlQuery)
    /\ pc' = "return"
    /\ UNCHANGED <<fn, data, where, orderBy, sqlQuery, sqlParts, fields, options, sheet, ops, log, tab>>

\* _applySelectFields(data, fields)
ApplySelectFields ==
    /\ pc = "call"
    /\ fn = "_applySelectFields"
    /\ ret' = Returned(ApplySelectFieldsResult(data, fields))
    /\ pc' = "return"
    /\ UNCHANGED <<fn, data, where, orderBy, sqlQuery, sqlParts, fields, options, sheet, ops, log, tab>>

\* select(where, options): one read of the store, and the evaluation of what
\* it gave.
Select ==
    /\ pc = "call"
    /\ fn = "select"
    /\ log' = Append(log, [by |-> 0, call |-> "values.get", row |-> 0])
    /\ ret' \in SelectResults(sheet, where, options)
    /\ pc' = "return"
    /\ UNCHANGED <<fn, data, where, orderBy, sqlQuery, sqlParts, fields, options, sheet, ops, tab>>

InitStore ==
    /\ sheet \in StoreSheets
    /\ ops \in [Callers -> Calls]
    /\ log = [c \in Callers |-> <<>>]
    /\ tab = TRUE
    /\ pc = "store"
    /\ fn = ""
    /\ data = sheet
    /\ where = <<>>
    /\ orderBy = <<>>
    /\ fields = <<>>
    /\ options = NoOptions
    /\ sqlQuery = ""
    /\ sqlParts = NoParts
    /\ ret = NoReturn

InitAlone ==
    /\ \E start \in AloneStarts :
          /\ sheet = start[1]
          /\ ops = [c \in Alone |-> start[2]]
          /\ tab = start[3]
    /\ log = [c \in Alone |-> <<>>]
    /\ pc = "store"
    /\ fn = ""
    /\ data = sheet
    /\ where = <<>>
    /\ orderBy = <<>>
    /\ fields = <<>>
    /\ options = NoOptions
    /\ sqlQuery = ""
    /\ sqlParts = NoParts
    /\ ret = NoReturn

\* Caller c is in function f at step p.
At(c, f, p) == ops[c].fn = f /\ ops[c].pc = p

\* The store call of a step, and what the step leaves untouched.
Calling(c, call) ==
    /\ log' = [log EXCEPT ![c] = Append(@, call)]
    /\ UNCHANGED <<pc, fn, data, where, orderBy, sqlQuery, sqlParts, ret, fields, options, tab>>

\* What the operations do with the rows that _getSheetData and _applyFilter
\* give them: filtered is the outcome of the filter, values the sheet read.

\* select(where)
SelectRows(op, filtered) == [op EXCEPT !.rows = filtered.rows, !.pc = "done"]

\* update: the headers are the keys of the first row, the matching rows
\* are written one by one
UpdateRows(op, values, filtered) ==
    [op EXCEPT !.headers = HeaderKeys(values),
               !.rows = filtered.rows,
               !.pc = IF filtered.rows = <<>> THEN "done" ELSE "update"]

\* delete: the matching rows are cleared one by one
DeleteRows(op, filtered) ==
    [op EXCEPT !.rows = filtered.rows,
               !.pc = IF filtered.rows = <<>> THEN "done" ELSE "clear"]

\* An updateOrInsert that does not look at what select returned and inserts.
AlwaysInsert(op, filtered) ==
    [op EXCEPT !.fn = "insertOne", !.pc = "start",
               !.newData = Spread(Spread(<<>>, op.where, 1), op.newData, 1)]

\* updateOrInsert: select(where), then update(where, newData) or
\* insertOne({ ...where, ...newData })
UpdateOrInsertRows(op, filtered) ==
    IF Len(filtered.rows) > 0
    THEN [op EXCEPT !.fn = "update", !.pc = "start"]
    ELSE [op EXCEPT !.fn = "insertOne", !.pc = "start",
                    !.newData = Spread(Spread(<<>>, op.where, 1), op.newData, 1)]

\* insertBeforeRow: select(where); without a match insertOne(newData), else
\* the row goes to the position of the first match
InsertBeforeRowRows(op, filtered) ==
    IF Len(filtered.rows) = 0
    THEN [op EXCEPT !.fn = "insertOne", !.pc = "start"]
    ELSE [op EXCEPT !.target = filtered.rows[1]._row.n, !.pc = "get"]

\* insertAfterRow: select(where); without a match insertOne(newData), else
\* the row goes below the first match
InsertAfterRowRows(op, filtered) ==
    IF Len(filtered.rows) = 0
    THEN [op EXCEPT !.fn = "insertOne", !.pc = "start"]
    ELSE [op EXCEPT !.target = filtered.rows[1]._row.n, !.pc = "get"]

\* updateOrInsertBeforeRow and updateOrInsertAfterRow: select(where);
\* without a match insertOne(newData), else the first match is the target
UpdateOrInsertBeforeRowRows(op, filtered) ==
    IF Len(filtered.rows) = 0
    THEN [op EXCEPT !.fn = "insertOne", !.pc = "start"]
    ELSE [op EXCEPT !.target = filtered.rows[1]._row.n, !.pc = "headers"]

UpdateOrInsertAfterRowRows(op, filtered) ==
    IF Len(filtered.rows) = 0
    THEN [op EXCEPT !.fn = "insertOne", !.pc = "start"]
    ELSE [op EXCEPT !.target = filtered.rows[1]._row.n, !.pc = "headers"]

Resume(op, values, filtered) ==
    IF filtered.threw THEN [op EXCEPT !.pc = "failed"]
    ELSE CASE op.fn = "select" -> SelectRows(op, filtered)
           [] op.fn = "update" -> UpdateRows(op, values, filtered)
           [] op.fn = "delete" -> DeleteRows(op, filtered)
           [] op.fn = "updateOrInsert" -> UpdateOrInsertRows(op, filtered)
           [] op.fn = "insertBeforeRow" -> InsertBeforeRowRows(op, filtered)
           [] op.fn = "insertAfterRow" -> InsertAfterRowRows(op, filtered)
           [] op.fn = "updateOrInsertBeforeRow" -> UpdateOrInsertBeforeRowRows(op, filtered)
           [] op.fn = "updateOrInsertAfterRow" -> UpdateOrInsertAfterRowRows(op, filtered)

\* The operations that begin with _getSheetData and _applyFilter.
Filtering ==
    {"select", "update", "delete", "updateOrInsert", "insertBeforeRow", "insertAfterRow",
     "updateOrInsertBeforeRow", "updateOrInsertAfterRow"}

\* The first step of the operations that filter: _getSheetData and
\* _applyFilter(data, where).
GetSheetDataAndFilter(c) ==
    /\ ops[c].pc = "start"
    /\ ops[c].fn \in Filtering
    /\ \E filtered \in {ApplyFilterResult(GetSheetData(sheet), ops[c].where)} :
          ops' = [ops EXCEPT ![c] = Resume(@, sheet, filtered)]
    /\ UNCHANGED sheet
    /\ Calling(c, "values.get")

\* insertOne: _getHeaders, then values.append
InsertOneGetHeaders(c) ==
    /\ At(c, "insertOne", "start")
    /\ ops' = [ops EXCEPT ![c].headers = sheet[1], ![c].pc = "append"]
    /\ UNCHANGED sheet
    /\ Calling(c, "values.get")

InsertOneAppend(c) ==
    /\ At(c, "insertOne", "append")
    /\ sheet' = ValuesAppend(sheet, <<NewRow(ops[c].headers, ops[c].newData)>>)
    /\ ops' = [ops EXCEPT ![c].pc = "done"]
    /\ Calling(c, "values.append")

\* insertMany: _getHeaders, then one values.append of every row
InsertManyGetHeaders(c) ==
    /\ At(c, "insertMany", "start")
    /\ ops' = [ops EXCEPT ![c].headers = sheet[1], ![c].pc = "append"]
    /\ UNCHANGED sheet
    /\ Calling(c, "values.get")

InsertManyAppend(c) ==
    /\ At(c, "insertMany", "append")
    /\ sheet' = ValuesAppend(sheet,
                     [i \in 1..Len(ops[c].many) |-> NewRow(ops[c].headers, ops[c].many[i])])
    /\ ops' = [ops EXCEPT ![c].pc = "done"]
    /\ Calling(c, "values.append")

\* update: _getSheetData, then one values.update per matching row
UpdateValuesUpdate(c) ==
    /\ At(c, "update", "update")
    /\ sheet' = WriteUpdatedRow(sheet, ops[c].headers, Head(ops[c].rows), ops[c].newData)
    /\ ops' = [ops EXCEPT ![c].rows = Tail(@),
                          ![c].written = Append(@, Head(ops[c].rows)._row.n),
                          ![c].pc = IF Len(ops[c].rows) = 1 THEN "done" ELSE "update"]
    /\ Calling(c, "values.update")

\* delete: _getSheetData, then one values.clear per matching row
DeleteValuesClear(c) ==
    /\ At(c, "delete", "clear")
    /\ sheet' = ValuesClear(sheet, Head(ops[c].rows)._row.n,
                            Cardinality(DOMAIN Head(ops[c].rows)) - 1)
    /\ ops' = [ops EXCEPT ![c].rows = Tail(@),
                          ![c].written = Append(@, Head(ops[c].rows)._row.n),
                          ![c].pc = IF Len(ops[c].rows) = 1 THEN "done" ELSE "clear"]
    /\ Calling(c, "values.clear")

\* insertBeforeRow after a match: spreadsheets.get, batchUpdate, _getHeaders
\* and values.update
InsertBeforeRowGet(c) ==
    /\ At(c, "insertBeforeRow", "get")
    /\ ops' = [ops EXCEPT ![c].pc = "batchUpdate"]
    /\ UNCHANGED sheet
    /\ Calling(c, "spreadsheets.get")

InsertBeforeRowBatchUpdate(c) ==
    /\ At(c, "insertBeforeRow", "batchUpdate")
    /\ sheet' = InsertDimension(sheet, ops[c].target)
    /\ ops' = [ops EXCEPT ![c].pc = "headers"]
    /\ Calling(c, "batchUpdate")

InsertBeforeRowGetHeaders(c) ==
    /\ At(c, "insertBeforeRow", "headers")
    /\ ops' = [ops EXCEPT ![c].headers = sheet[1], ![c].pc = "update"]
    /\ UNCHANGED sheet
    /\ Calling(c, "values.get")

InsertBeforeRowValuesUpdate(c) ==
    /\ At(c, "insertBeforeRow", "update")
    /\ sheet' = ValuesUpdate(sheet, ops[c].target, NewRow(ops[c].headers, ops[c].newData))
    /\ ops' = [ops EXCEPT ![c].pc = "done", ![c].action = "inserted", ![c].row = ops[c].target]
    /\ Calling(c, "values.update")

\* insertAfterRow after a match: spreadsheets.get, batchUpdate, _getHeaders
\* and values.update
InsertAfterRowGet(c) ==
    /\ At(c, "insertAfterRow", "get")
    /\ ops' = [ops EXCEPT ![c].pc = "batchUpdate"]
    /\ UNCHANGED sheet
    /\ Calling(c, "spreadsheets.get")

InsertAfterRowBatchUpdate(c) ==
    /\ At(c, "insertAfterRow", "batchUpdate")
    /\ sheet' = InsertDimension(sheet, ops[c].target + 1)
    /\ ops' = [ops EXCEPT ![c].pc = "headers"]
    /\ Calling(c, "batchUpdate")

InsertAfterRowGetHeaders(c) ==
    /\ At(c, "insertAfterRow", "headers")
    /\ ops' = [ops EXCEPT ![c].headers = sheet[1], ![c].pc = "update"]
    /\ UNCHANGED sheet
    /\ Calling(c, "values.get")

InsertAfterRowValuesUpdate(c) ==
    /\ At(c, "insertAfterRow", "update")
    /\ sheet' = ValuesUpdate(sheet, ops[c].target + 1, NewRow(ops[c].headers, ops[c].newData))
    /\ ops' = [ops EXCEPT ![c].pc = "done", ![c].action = "inserted",
                          ![c].row = ops[c].target + 1]
    /\ Calling(c, "values.update")

\* newData.hasOwnProperty(uniqueKey)
HasOwnProperty(obj, key) == \E i \in 1..Len(obj) : obj[i][1] = key

MissingUniqueKey == "newData must contain the unique key"

\* a === b
IdenticalTo(a, b) == a = b /\ a.t # "NaN"

\* rows.find(row => row[uniqueKey] === newData[uniqueKey]): the place of
\* the first such row in rows, 0 without one
FindExisting(rows, uniqueKey, newData) ==
    LET hits == {i \in 1..Len(rows) :
                    IdenticalTo(RowGet(rows[i], uniqueKey), ObjectGet(newData, uniqueKey))}
    IN  IF hits = {} THEN 0 ELSE Min(hits)

\* sheetData.filter(row => row._row < targetRowNumber)
RowsBefore(sheetData, targetRowNumber) ==
    LET Above(row) == row._row.n < targetRowNumber IN SelectSeq(sheetData, Above)

\* sheetData.filter(row => row._row > targetRowNumber)
RowsAfter(sheetData, targetRowNumber) ==
    LET Below(row) == row._row.n > targetRowNumber IN SelectSeq(sheetData, Below)

\* headers.map(h => newData[h] !== undefined ? newData[h] : existingRow[h])
MergedRow(headers, newData, existingRow) ==
    [j \in 1..Len(headers) |->
        LET v == ObjectGet(newData, headers[j])
        IN  JsToString(IF v.t = "undefined" THEN RowGet(existingRow, headers[j]) ELSE v)]

\* headers.map(h => newData[h] !== undefined ? newData[h] : '')
FilledRow(headers, newData) ==
    [j \in 1..Len(headers) |->
        LET v == ObjectGet(newData, headers[j])
        IN  IF v.t = "undefined" THEN "" ELSE JsToString(v)]

\* rowObj ? headers.every(h => !rowObj[h] || rowObj[h] === '') : true, for
\* rowObj = rowMap[r]
IsEmpty(sheetData, headers, r) ==
    IF r - 1 \in 1..Len(sheetData)
    THEN \A j \in 1..Len(headers) :
            LET v == RowGet(sheetData[r - 1], headers[j]) IN ~Truthy(v) \/ v = Str("")
    ELSE TRUE

\* The row right above the target when it is empty, whatever is above it.
NearestEmptyRow(sheetData, headers, r, candidate) ==
    IF r >= 2 /\ IsEmpty(sheetData, headers, r) THEN r ELSE candidate

\* The loop from r down to row 2 that keeps the topmost row of the empty
\* rows right above the target; 0 stands for null.
RECURSIVE EmptyRowCandidate(_, _, _, _)
EmptyRowCandidate(sheetData, headers, r, candidate) ==
    IF r < 2 THEN candidate
    ELSE IF IsEmpty(sheetData, headers, r)
         THEN EmptyRowCandidate(sheetData, headers, r - 1, r)
         ELSE candidate

\* updateOrInsertBeforeRow after a match: _getHeaders and the check of the
\* unique key, _getSheetData, and then one of: values.update of the row
\* above with the same key, values.update of the empty row above, or
\* spreadsheets.get, batchUpdate and values.update of the new row.
UpdateOrInsertBeforeRowGetHeaders(c) ==
    /\ At(c, "updateOrInsertBeforeRow", "headers")
    /\ ops' = [ops EXCEPT ![c].headers = sheet[1],
                          ![c].pc = IF HasOwnProperty(ops[c].newData, ops[c].uniqueKey)
                                    THEN "data" ELSE "failed",
                          ![c].error = IF HasOwnProperty(ops[c].newData, ops[c].uniqueKey)
                                       THEN "" ELSE MissingUniqueKey]
    /\ UNCHANGED sheet
    /\ Calling(c, "values.get")

UpdateOrInsertBeforeRowGetSheetData(c) ==
    /\ At(c, "updateOrInsertBeforeRow", "data")
    /\ LET op == ops[c]
           sheetData == GetSheetData(sheet)
           rowsBefore == RowsBefore(sheetData, op.target)
           existing == FindExisting(rowsBefore, op.uniqueKey, op.newData)
           candidate == IF op.ignoreEmptyRows
                        THEN EmptyRowCandidate(sheetData, op.headers, op.target - 1, 0)
                        ELSE 0
       IN  ops' = [ops EXCEPT ![c] =
                      IF existing # 0
                      THEN [op EXCEPT !.rows = <<rowsBefore[existing]>>, !.pc = "existing"]
                      ELSE IF candidate # 0
                           THEN [op EXCEPT !.row = candidate, !.pc = "empty"]
                           ELSE [op EXCEPT !.pc = "get"]]
    /\ UNCHANGED sheet
    /\ Calling(c, "values.get")

UpdateOrInsertBeforeRowUpdateExisting(c) ==
    /\ At(c, "updateOrInsertBeforeRow", "existing")
    /\ sheet' = ValuesUpdate(sheet, ops[c].rows[1]._row.n,
                             MergedRow(ops[c].headers, ops[c].newData, ops[c].rows[1]))
    /\ ops' = [ops EXCEPT ![c].pc = "done", ![c].action = "updated",
                          ![c].row = ops[c].rows[1]._row.n]
    /\ Calling(c, "values.update")

UpdateOrInsertBeforeRowUpdateEmpty(c) ==
    /\ At(c, "updateOrInsertBeforeRow", "empty")
    /\ sheet' = ValuesUpdate(sheet, ops[c].row, FilledRow(ops[c].headers, ops[c].newData))
    /\ ops' = [ops EXCEPT ![c].pc = "done", ![c].action = "updated (empty row)"]
    /\ Calling(c, "values.update")

UpdateOrInsertBeforeRowGet(c) ==
    /\ At(c, "updateOrInsertBeforeRow", "get")
    /\ ops' = [ops EXCEPT ![c].pc = "batchUpdate"]
    /\ UNCHANGED sheet
    /\ Calling(c, "spreadsheets.get")

UpdateOrInsertBeforeRowBatchUpdate(c) ==
    /\ At(c, "updateOrInsertBeforeRow", "batchUpdate")
    /\ sheet' = InsertDimension(sheet, ops[c].target)
    /\ ops' = [ops EXCEPT ![c].pc = "update"]
    /\ Calling(c, "batchUpdate")

UpdateOrInsertBeforeRowValuesUpdate(c) ==
    /\ At(c, "updateOrInsertBeforeRow", "update")
    /\ sheet' = ValuesUpdate(sheet, ops[c].target, NewRow(ops[c].headers, ops[c].newData))
    /\ ops' = [ops EXCEPT ![c].pc = "done", ![c].action = "inserted", ![c].row = ops[c].target]
    /\ Calling(c, "values.update")

\* updateOrInsertAfterRow after a match: _getHeaders and the check of the
\* unique key, _getSheetData, and then values.update of the row below with
\* the same key, or spreadsheets.get, batchUpdate and values.update of the
\* new row.
UpdateOrInsertAfterRowGetHeaders(c) ==
    /\ At(c, "updateOrInsertAfterRow", "headers")
    /\ ops' = [ops EXCEPT ![c].headers = sheet[1],
                          ![c].pc = IF HasOwnProperty(ops[c].newData, ops[c].uniqueKey)
                                    THEN "data" ELSE "failed",
                          ![c].error = IF HasOwnProperty(ops[c].newData, ops[c].uniqueKey)
                                       THEN "" ELSE MissingUniqueKey]
    /\ UNCHANGED sheet
    /\ Calling(c, "values.get")

UpdateOrInsertAfterRowGetSheetData(c) ==
    /\ At(c, "updateOrInsertAfterRow", "data")
    /\ LET op == ops[c]
           rowsAfter == RowsAfter(GetSheetData(sheet), op.target)
           existing == FindExisting(rowsAfter, op.uniqueKey, op.newData)
       IN  ops' = [ops EXCEPT ![c] =
                      IF existing # 0
                      THEN [op EXCEPT !.rows = <<rowsAfter[existing]>>, !.pc = "existing"]
                      ELSE [op EXCEPT !.pc = "get"]]
    /\ UNCHANGED sheet
    /\ Calling(c, "values.get")

UpdateOrInsertAfterRowUpdateExisting(c) ==
    /\ At(c, "updateOrInsertAfterRow", "existing")
    /\ sheet' = ValuesUpdate(sheet, ops[c].rows[1]._row.n,
                             MergedRow(ops[c].headers, ops[c].newData, ops[c].rows[1]))
    /\ ops' = [ops EXCEPT ![c].pc = "done", ![c].action = "updated",
                          ![c].row = ops[c].rows[1]._row.n]
    /\ Calling(c, "values.update")

UpdateOrInsertAfterRowGet(c) ==
    /\ At(c, "updateOrInsertAfterRow", "get")
    /\ ops' = [ops EXCEPT ![c].pc = "batchUpdate"]
    /\ UNCHANGED sheet
    /\ Calling(c, "spreadsheets.get")

UpdateOrInsertAfterRowBatchUpdate(c) ==
    /\ At(c, "updateOrInsertAfterRow", "batchUpdate")
    /\ sheet' = InsertDimension(sheet, ops[c].target + 1)
    /\ ops' = [ops EXCEPT ![c].pc = "update"]
    /\ Calling(c, "batchUpdate")

UpdateOrInsertAfterRowValuesUpdate(c) ==
    /\ At(c, "updateOrInsertAfterRow", "update")
    /\ sheet' = ValuesUpdate(sheet, ops[c].target + 1, NewRow(ops[c].headers, ops[c].newData))
    /\ ops' = [ops EXCEPT ![c].pc = "done", ![c].action = "inserted",
                          ![c].row = ops[c].target + 1]
    /\ Calling(c, "values.update")

\* A rejected call that is passed over: the loop goes on with the next row.
CarryOn(op) == [op EXCEPT !.rows = Tail(@), !.pc = IF Len(op.rows) = 1 THEN "done" ELSE @]

\* The store rejects a call: the await throws, the loop is left and the
\* operation rejects.
Reject(op) == [op EXCEPT !.pc = "failed", !.error = "rejected"]

\* update: the store rejects the values.update of the next matching row
UpdateValuesUpdateRejected(c) ==
    /\ At(c, "update", "update")
    /\ ops' = [ops EXCEPT ![c] = Reject(@)]
    /\ UNCHANGED sheet
    /\ Calling(c, "values.update")

\* delete: the store rejects the values.clear of the next matching row
DeleteValuesClearRejected(c) ==
    /\ At(c, "delete", "clear")
    /\ ops' = [ops EXCEPT ![c] = Reject(@)]
    /\ UNCHANGED sheet
    /\ Calling(c, "values.clear")

MustPassColumns == "You must pass an array of column names"

\* !columns || !Array.isArray(columns) || columns.length === 0, with the
\* default columns = []
ColumnsRejected(columns) ==
    LET cols == IF columns = Undefined THEN Arr(<<>>) ELSE columns
    IN  IF ~Truthy(cols) THEN TRUE
        ELSE IF cols.t # "array" THEN TRUE
        ELSE Len(cols.items) = 0

\* createTable: the check of columns, then spreadsheets.get, batchUpdate
\* with addSheet when the tab is missing, and values.update at A1
CreateTableThrow(c) ==
    /\ At(c, "createTable", "start")
    /\ ColumnsRejected(ops[c].columns)
    /\ ops' = [ops EXCEPT ![c].pc = "failed", ![c].error = MustPassColumns]
    /\ UNCHANGED <<pc, fn, data, where, orderBy, sqlQuery, sqlParts, ret, fields, options,
                   sheet, log, tab>>

CreateTableGet(c) ==
    /\ At(c, "createTable", "start")
    /\ ~ColumnsRejected(ops[c].columns)
    /\ ops' = [ops EXCEPT ![c].pc = IF tab THEN "update" ELSE "addSheet"]
    /\ UNCHANGED sheet
    /\ Calling(c, "spreadsheets.get")

CreateTableAddSheet(c) ==
    /\ At(c, "createTable", "addSheet")
    /\ tab' = TRUE
    /\ sheet' = <<>>
    /\ ops' = [ops EXCEPT ![c].pc = "update"]
    /\ log' = [log EXCEPT ![c] = Append(@, "batchUpdate")]
    /\ UNCHANGED <<pc, fn, data, where, orderBy, sqlQuery, sqlParts, ret, fields, options>>

CreateTableValuesUpdate(c) ==
    /\ At(c, "createTable", "update")
    /\ sheet' = ValuesUpdate(sheet, 1, ops[c].columns.items)
    /\ ops' = [ops EXCEPT ![c].pc = "done"]
    /\ Calling(c, "values.update")

\* truncateTable: _getHeaders, then values.clear on A2:Z1000
TruncateTableGetHeaders(c) ==
    /\ At(c, "truncateTable", "start")
    /\ ops' = [ops EXCEPT ![c].headers = sheet[1], ![c].pc = "clear"]
    /\ UNCHANGED sheet
    /\ Calling(c, "values.get")

TruncateTableValuesClear(c) ==
    /\ At(c, "truncateTable", "clear")
    /\ sheet' = ValuesClearRange(sheet, TruncateFirstRow, TruncateLastRow, TruncateColumns)
    /\ ops' = [ops EXCEPT ![c].pc = "done"]
    /\ Calling(c, "values.clear")

NextStore ==
    \E c \in DOMAIN ops :
        \/ GetSheetDataAndFilter(c)
        \/ InsertOneGetHeaders(c)
        \/ InsertOneAppend(c)
        \/ InsertManyGetHeaders(c)
        \/ InsertManyAppend(c)
        \/ UpdateValuesUpdate(c)
        \/ DeleteValuesClear(c)
        \/ InsertBeforeRowGet(c)
        \/ InsertBeforeRowBatchUpdate(c)
        \/ InsertBeforeRowGetHeaders(c)
        \/ InsertBeforeRowValuesUpdate(c)

NextAlone ==
    \/ NextStore
    \/ \E c \in DOMAIN ops :
        \/ InsertAfterRowGet(c)
        \/ InsertAfterRowBatchUpdate(c)
        \/ InsertAfterRowGetHeaders(c)
        \/ InsertAfterRowValuesUpdate(c)
        \/ UpdateOrInsertBeforeRowGetHeaders(c)
        \/ UpdateOrInsertBeforeRowGetSheetData(c)
        \/ UpdateOrInsertBeforeRowUpdateExisting(c)
        \/ UpdateOrInsertBeforeRowUpdateEmpty(c)
        \/ UpdateOrInsertBeforeRowGet(c)
        \/ UpdateOrInsertBeforeRowBatchUpdate(c)
        \/ UpdateOrInsertBeforeRowValuesUpdate(c)
        \/ UpdateOrInsertAfterRowGetHeaders(c)
        \/ UpdateOrInsertAfterRowGetSheetData(c)
        \/ UpdateOrInsertAfterRowUpdateExisting(c)
        \/ UpdateOrInsertAfterRowGet(c)
        \/ UpdateOrInsertAfterRowBatchUpdate(c)
        \/ UpdateOrInsertAfterRowValuesUpdate(c)
        \/ UpdateValuesUpdateRejected(c)
        \/ DeleteValuesClearRejected(c)
        \/ CreateTableThrow(c)
        \/ CreateTableGet(c)
        \/ CreateTableAddSheet(c)
        \/ CreateTableValuesUpdate(c)
        \/ TruncateTableGetHeaders(c)
        \/ TruncateTableValuesClear(c)

Init == InitFilter \/ InitSorting

Next == ApplyFilter \/ ApplySorting

Spec == Init /\ [][Next]_vars

\* The query translator alone.
SpecSql == InitSql /\ [][Convert]_vars

\* The projection and select.
NextSelect == ApplySelectFields \/ Select

SpecSelect == (InitSelectFields \/ InitSelect) /\ [][NextSelect]_vars

\* The query translator on statements of each form.
SpecStatements == InitStatements /\ [][Convert]_vars

\* The operations of two callers on one sheet, one store call per step.
SpecStore == InitStore /\ [][NextStore]_vars

\* Each operation of one caller that has the sheet to itself, one store
\* call per step; the store may reject a write of update and delete.
SpecAlone == InitAlone /\ [][NextAlone]_vars

(***************************************************************************)
(* The properties.                                                         *)
(***************************************************************************)
FilterReturned == pc = "return" /\ fn = "_applyFilter"
SortingReturned == pc = "return" /\ fn = "_applySorting"
ConverterReturned == pc = "return" /\ fn = "_sqlToNosqlConverter"

\* The text of the cell of a row under a column; no cell reads as "".
CellOf(row, key) == IF key \in DOMAIN row THEN row[key].s ELSE ""

\* Whether every condition object of a filter is a pair of operator and value.
HasValues(entries) ==
    \A i \in 1..Len(entries) :
        IsObject(entries[i][2]) => entries[i][2].value # Undefined

MatchesAll(row, entries) ==
    \A i \in 1..Len(entries) : MatchEntry(row, entries[i][1], entries[i][2]) = "true"

\* C1: _applyFilter returns exactly the rows for which every (column,
\* condition) entry of the filter matches, in the order of the input; under
\* the empty filter it returns every row.
C1_FilterKeepsRowsMatchingEveryEntry ==
    (FilterReturned /\ HasValues(where)) =>
        /\ ~ret.threw
        /\ ret.rows = SelectSeq(data, LAMBDA r : MatchesAll(r, where))
        /\ (where = <<>> => ret.rows = data)

\* Two rows pass the first entry of a filter of two, and the second entry
\* keeps only the later one.
C1_Witness ==
    /\ FilterReturned
    /\ HasValues(where)
    /\ Len(where) = 2
    /\ Len(data) = 2
    /\ MatchEntry(data[1], where[1][1], where[1][2]) = "true"
    /\ ret.rows = <<data[2]>>

KnownOperators == {">", "<", ">=", "<=", "!=", "=", "contains"}

UnknownOperator(condition) ==
    IsObject(condition) /\ condition.op \notin {Str(o) : o \in KnownOperators}

\* C2: _applyFilter and _applySorting return without raising for every
\* filter (any operator, any condition value, a missing one included) and
\* every orderBy (a column no row has included); an entry with an unknown
\* operator makes its row not match.
C2_FilterAndSortingNeverRaise ==
    (pc = "return" /\ fn \in {"_applyFilter", "_applySorting"}) =>
        /\ ~ret.threw
        /\ (fn = "_applyFilter" /\ \E i \in 1..Len(where) : UnknownOperator(where[i][2]))
              => ret.rows = <<>>

\* C3: for SELECT, UPDATE and DELETE a WHERE condition that is not of the
\* form col = value makes the translator raise an error; it returns no
\* command.
C3_TranslatorFailsFast ==
    (ConverterReturned /\ \E i \in 1..Len(sqlParts.conds) : sqlParts.conds[i] \in OtherConditions)
        => ret.threw

\* The number a cell reads as: a decimal numeral its value, no text 0.
CellNumber(cell) ==
    LET s == Trim(cell)
    IN  IF s = "" THEN 0 ELSE IF IsDigits(s) THEN DigitsValue(s) ELSE -1

\* Loose equality of a cell and a literal: the same text, or the same number.
LooselyEqual(cell, literal) ==
    CASE literal.t = "string" -> cell = literal.s
      [] literal.t = "number" -> CellNumber(cell) = literal.n
      [] OTHER -> FALSE

\* C4: under a bare literal {col: v} a row matches exactly when its cell
\* under col, "" when it has none, is loosely equal to v; the cell "25"
\* matches the number 25.
C4_LiteralIsLooseEquality ==
    (FilterReturned /\ Len(where) = 1 /\ ~IsObject(where[1][2])) =>
        /\ ~ret.threw
        /\ ret.rows = SelectSeq(data, LAMBDA r : LooselyEqual(CellOf(r, where[1][1]), where[1][2]))

\* The cell "25" is kept by the literal 25.
C4_Witness ==
    /\ FilterReturned
    /\ where = <<(<<"age", Num(25)>>)>>
    /\ Len(data) = 2
    /\ CellOf(data[1], "age") = "7"
    /\ CellOf(data[2], "age") = "25"
    /\ ret.rows = <<data[2]>>

ComparisonOperators == {"=", "!=", ">", "<", ">=", "<="}

\* A text that is no date, or no value at all.
UnparseableDate(v) == v = Undefined \/ (v.t = "string" /\ v.s \in {"", "unknown"})

\* A filter of one comparison on a date-hinted column.
DateComparison ==
    /\ Len(where) = 1
    /\ IsDateColumn(where[1][1])
    /\ IsObject(where[1][2])
    /\ where[1][2].op \in {Str(o) : o \in ComparisonOperators}

\* The rows of the input whose cell, or the value compared with, is no date.
UnparseableRows ==
    {i \in 1..Len(data) :
        UnparseableDate(Str(CellOf(data[i], where[1][1]))) \/ UnparseableDate(where[1][2].value)}

\* C5: on a date-hinted column a comparison whose cell or value is no
\* parseable date never matches, whichever of =, !=, >, <, >=, <= it uses,
\* and nothing is raised.
C5_UnparseableDateNeverMatches ==
    (FilterReturned /\ DateComparison) =>
        /\ ~ret.threw
        /\ \A i \in UnparseableRows : data[i] \notin Range(ret.rows)

\* C5, amended: such a comparison never matches under =, >, <, >=, <= and
\* always matches under !=; nothing is raised.
C5_UnparseableDateMatchesOnlyNotEqual ==
    (FilterReturned /\ DateComparison) =>
        /\ ~ret.threw
        /\ \A i \in UnparseableRows :
              (data[i] \in Range(ret.rows)) = (where[1][2].op = Str("!="))

\* A cell that is no date is kept by != and a date.
C5_Witness ==
    /\ FilterReturned
    /\ where = <<(<<"birthDate", Cond(Str("!="), Str("2024-03-01"))>>)>>
    /\ Len(data) = 2
    /\ CellOf(data[1], "birthDate") = "unknown"
    /\ CellOf(data[2], "birthDate") = "2024-03-01"
    /\ ret.rows = <<data[1]>>

\* A text that is a decimal number in full.
DecimalNumber(raw) == raw # "" /\ \A i \in 1..Len(raw) : IsDigitChar(Ch(raw, i))

\* A filter of one {op: '=', value: raw}, raw a text, on a column without
\* the date hint.
TextEquality ==
    /\ Len(where) = 1
    /\ ~IsDateColumn(where[1][1])
    /\ IsObject(where[1][2])
    /\ where[1][2].op = Str("=")
    /\ where[1][2].value.t = "string"

\* C6: _parseValue(raw, false) is a number exactly when raw is a decimal
\* number in full, and raw in lower case otherwise; so {op: '=', value: raw}
\* with raw no number, the empty text included, matches every cell equal to
\* raw up to case.
C6_NonNumberMatchesUpToCase ==
    (FilterReturned /\ TextEquality) =>
        LET raw == where[1][2].value.s
            parsed == ParseValue(Str(raw), FALSE)
        IN  /\ (parsed.t = "number") = DecimalNumber(raw)
            /\ ~DecimalNumber(raw) =>
                  /\ parsed = Str(ToLowerCase(raw))
                  /\ ~ret.threw
                  /\ \A i \in 1..Len(data) :
                        ToLowerCase(CellOf(data[i], where[1][1])) = ToLowerCase(raw)
                            => data[i] \in Range(ret.rows)

\* Whether a column name holds "date", in any case.
NamesDate(key) ==
    \E i \in 1..Len(key) : i + 3 <= Len(key) /\ ToLowerCase(SubSeq(key, i, i + 3)) = "date"

DateTexts == {"2024-03-01", "2024-03-15", "2024-03"}

\* The day of a date text as one number: the same for the same day.
ChronoKey(s) ==
    LET y == DigitsValue(SubSeq(s, 1, 4))
        m == IF Len(s) >= 7 THEN DigitsValue(SubSeq(s, 6, 7)) ELSE 1
        d == IF Len(s) = 10 THEN DigitsValue(SubSeq(s, 9, 10)) ELSE 1
    IN  y * 10000 + m * 100 + d

\* A comparison operator, given whether the left side is less or equal.
Relation(op, less, equal) ==
    CASE op = Str("<") -> less
      [] op = Str("<=") -> less \/ equal
      [] op = Str(">") -> ~less /\ ~equal
      [] op = Str(">=") -> ~less
      [] op = Str("=") -> equal
      [] op = Str("!=") -> ~equal

Chronologically(op, s, t) == Relation(op, ChronoKey(s) < ChronoKey(t), ChronoKey(s) = ChronoKey(t))

Lexicographically(op, s, t) ==
    Relation(op, StrLess(ToLowerCase(s), ToLowerCase(t)), ToLowerCase(s) = ToLowerCase(t))

\* A filter of one comparison of date texts with a date text.
DateTextComparison ==
    /\ Len(where) = 1
    /\ IsObject(where[1][2])
    /\ where[1][2].op \in {Str(o) : o \in ComparisonOperators}
    /\ where[1][2].value.t = "string"
    /\ where[1][2].value.s \in DateTexts
    /\ \A i \in 1..Len(data) : CellOf(data[i], where[1][1]) \in DateTexts

\* A sorting of date texts on one key.
DateTextSorting ==
    /\ Len(orderBy) = 1
    /\ \A i \in 1..Len(data) : CellOf(data[i], orderBy[1].column) \in DateTexts


ChronoBefore(a, b) ==
    LET x == ChronoKey(CellOf(a, orderBy[1].column))
        y == ChronoKey(CellOf(b, orderBy[1].column))
    IN  IF orderBy[1].direction = Str("desc") THEN y < x ELSE x < y

LexBefore(a, b) ==
    LET x == ToLowerCase(CellOf(a, orderBy[1].column))
        y == ToLowerCase(CellOf(b, orderBy[1].column))
    IN  IF orderBy[1].direction = Str("desc") THEN StrLess(y, x) ELSE StrLess(x, y)

Before(a, b, asDates) == IF asDates THEN ChronoBefore(a, b) ELSE LexBefore(a, b)

\* Whether rows holds the rows of the input, each row before every row that
\* it is Before, and before every later row of the input that is not Before
\* it.
SortedBy(rows, asDates) ==
    /\ Len(rows) = Len(data)
    /\ Range(rows) = Range(data)
    /\ \A i, j \in 1..Len(rows) :
          i < j => \/ Before(rows[i], rows[j], asDates)
                   \/ ~Before(rows[j], rows[i], asDates) /\ rows[i]._row.n < rows[j]._row.n

\* What a filter or a sorting gives when the column is compared as dates.
AsDates ==
    IF fn = "_applyFilter"
    THEN ret.rows = SelectSeq(data, LAMBDA r :
                        Chronologically(where[1][2].op, CellOf(r, where[1][1]), where[1][2].value.s))
    ELSE SortedBy(ret.rows, TRUE)

\* What they give when the column is compared as texts.
AsTexts ==
    IF fn = "_applyFilter"
    THEN ret.rows = SelectSeq(data, LAMBDA r :
                        Lexicographically(where[1][2].op, CellOf(r, where[1][1]), where[1][2].value.s))
    ELSE SortedBy(ret.rows, FALSE)

DateTextCall ==
    \/ FilterReturned /\ DateTextComparison
    \/ SortingReturned /\ DateTextSorting

ComparedColumn == IF fn = "_applyFilter" THEN where[1][1] ELSE orderBy[1].column

\* C7: a column is compared as dates, by the filter operators and by the
\* sorting, exactly when its name holds "date" in any case; its values then
\* compare by time and not as texts; and created_at is such a column.
C7_CreatedAtComparedAsDate ==
    DateTextCall =>
        /\ ~ret.threw
        /\ IF NamesDate(ComparedColumn) \/ ComparedColumn = "created_at" THEN AsDates ELSE AsTexts

\* C7, amended: a column is compared as dates exactly when its name holds
\* "date" in any case; created_at does not, and is compared as texts.
C7_DateHintIsTheName ==
    DateTextCall =>
        /\ ~ret.threw
        /\ IF NamesDate(ComparedColumn) THEN AsDates ELSE AsTexts

\* Under birthDate the cell "2024-03-01" equals the value "2024-03", the
\* same day, which as a text it does not.
C7_Witness ==
    /\ FilterReturned
    /\ where = <<(<<"birthDate", Cond(Str("="), Str("2024-03"))>>)>>
    /\ Len(data) = 2
    /\ CellOf(data[1], "birthDate") = "2024-03-15"
    /\ CellOf(data[2], "birthDate") = "2024-03-01"
    /\ ret.rows = <<data[2]>>

\* Whether sub is a run of the characters of s.
IsSubstring(sub, s) ==
    \E i \in 0..Len(s) : i + Len(sub) <= Len(s) /\ SubSeq(s, i + 1, i + Len(sub)) = sub

\* The text of a value.
ValueText(v) ==
    CASE v.t = "string" -> v.s
      [] v.t = "number" -> NatToString(v.n)
      [] v.t = "null" -> "null"

\* C8: contains compares no coerced value: on every column, date-hinted and
\* numeric ones included, a row matches exactly when the value in lower case
\* is a run of the characters of its raw cell in lower case; "Alice" matches
\* 'LI'.
C8_ContainsIsSubstringOfRawCell ==
    (/\ FilterReturned
     /\ Len(where) = 1
     /\ IsObject(where[1][2])
     /\ where[1][2].op = Str("contains")
     /\ where[1][2].value # Undefined) =>
        /\ ~ret.threw
        /\ ret.rows = SelectSeq(data, LAMBDA r :
                          IsSubstring(ToLowerCase(ValueText(where[1][2].value)),
                                      ToLowerCase(CellOf(r, where[1][1]))))

\* The cell "Alice" is kept by contains 'LI', the empty cell is not.
C8_Witness ==
    /\ FilterReturned
    /\ where = <<(<<"name", Cond(Str("contains"), Str("LI"))>>)>>
    /\ Len(data) = 2
    /\ CellOf(data[1], "name") = ""
    /\ CellOf(data[2], "name") = "Alice"
    /\ ret.rows = <<data[2]>>

\* Whether two rows hold the same text, up to case, under every key.
EqualOnKeys(a, b) ==
    \A k \in 1..Len(orderBy) :
        ToLowerCase(CellOf(a, orderBy[k].column)) = ToLowerCase(CellOf(b, orderBy[k].column))

PositionIn(rows, row) == CHOOSE i \in 1..Len(rows) : rows[i] = row

\* C9: the sorting is stable: two rows equal on every key of orderBy keep
\* the order they had in the input; under the empty orderBy the output is
\* the input.
C9_SortingIsStable ==
    (SortingReturned /\ ~ret.threw) =>
        /\ Len(ret.rows) = Len(data)
        /\ Range(ret.rows) = Range(data)
        /\ \A i, j \in 1..Len(data) :
              (i < j /\ EqualOnKeys(data[i], data[j]))
                  => PositionIn(ret.rows, data[i]) < PositionIn(ret.rows, data[j])
        /\ (orderBy = <<>> => ret.rows = data)

\* The coerced value of a row under key k.
Coerced(row, k) ==
    ParseValue(RowGet(row, orderBy[k].column), IsDateColumn(orderBy[k].column))

\* Whether row a is rightly placed before row b: on the first key where
\* their coerced values differ, a is smaller, or larger under desc.
InOrder(a, b) ==
    \A k \in 1..Len(orderBy) :
        (/\ Coerced(a, k) # Coerced(b, k)
         /\ \A h \in 1..(k - 1) : Coerced(a, h) = Coerced(b, h))
            => IF orderBy[k].direction = Str("desc")
               THEN LessThan(Coerced(b, k), Coerced(a, k))
               ELSE LessThan(Coerced(a, k), Coerced(b, k))

Reverse(rows) == [i \in 1..Len(rows) |-> rows[Len(rows) + 1 - i]]

\* C10: the output of the sorting holds the rows of the input, ordered by
\* the keys in sequence: of two adjacent rows the earlier is smaller (asc)
\* or larger (desc) on the first key where their coerced values differ; on
\* one key with distinct values desc gives the reverse of asc; for every
\* input, columns mixing numeric and other cells included.
C10_SortingOrdersByKeys ==
    (SortingReturned /\ ~ret.threw) =>
        /\ Len(ret.rows) = Len(data)
        /\ Range(ret.rows) = Range(data)
        /\ \A i \in 1..(Len(ret.rows) - 1) : InOrder(ret.rows[i], ret.rows[i + 1])
        /\ (/\ Len(orderBy) = 1
            /\ orderBy[1].direction = Str("desc")
            /\ \A i, j \in 1..Len(data) : i # j => Coerced(data[i], 1) # Coerced(data[j], 1))
              => ret.rows \in {Reverse(r.rows) :
                                  r \in ApplySortingResults(data,
                                          <<[column |-> orderBy[1].column, direction |-> Str("asc")]>>)}

SelectFieldsReturned == pc = "return" /\ fn = "_applySelectFields"
SelectReturned == pc = "return" /\ fn = "select"

\* Object.keys(obj)
Keys(obj) == [i \in 1..Len(obj) |-> obj[i][1]]

\* C11: _applySelectFields returns one row for each row of the input, in
\* the same order, whose keys are exactly the requested fields in the
\* requested order, _row only when it is requested; a field the row has not
\* is there with the value undefined, and nothing is raised.
C11_ProjectionKeepsRequestedFields ==
    SelectFieldsReturned =>
        /\ ~ret.threw
        /\ Len(ret.rows) = Len(data)
        /\ \A i \in 1..Len(data) :
              /\ Keys(ret.rows[i]) = fields
              /\ \A j \in 1..Len(fields) :
                    ret.rows[i][j][2] = IF fields[j] \in DOMAIN data[i]
                                        THEN data[i][fields[j]] ELSE Undefined

\* The sequences select may have after the filter and the sorting.
FilteredAndSorted ==
    LET filtered == ApplyFilterResult(GetSheetData(sheet), where)
    IN  IF Truthy(options.orderBy)
        THEN {r.rows : r \in ApplySortingResults(filtered.rows, options.orderBy.items)}
        ELSE {filtered.rows}

Projected == Truthy(options.selectFields)

\* The rows at indices k .. k+n-1, counted from 0, and their projection.
Window(rows, k, n) ==
    LET last == IF k + n < Len(rows) THEN k + n ELSE Len(rows)
        kept == SubSeq(rows, k + 1, last)
    IN  IF Projected THEN ApplySelectFieldsResult(kept, options.selectFields.items) ELSE kept

\* C12: for every offset k >= 0 and every limit n >= 0, 0 included,
\* select(where, {offset: k, limit: n}) returns exactly the rows at indices
\* k .. k+n-1 of the filtered and sorted sequence, so never more than n
\* rows: the offset first, then the limit, the projection last.
C12_OffsetThenLimit ==
    (SelectReturned /\ ~ret.threw /\ options.offset.t = "number" /\ options.limit.t = "number") =>
        /\ Len(ret.rows) <= options.limit.n
        /\ \E rows \in FilteredAndSorted :
              ret.rows = Window(rows, options.offset.n, options.limit.n)

\* Whether a row of a result carries _row, and which.
CarriesRow(row) ==
    IF Projected THEN \E j \in 1..Len(row) : row[j][1] = "_row" ELSE "_row" \in DOMAIN row

RowNumber(row) ==
    IF Projected THEN row[CHOOSE j \in 1..Len(row) : row[j][1] = "_row"][2].n ELSE row._row.n

\* Whether a row of a result carries key, and with which value.
CarriesKey(row, key) ==
    IF Projected THEN \E j \in 1..Len(row) : row[j][1] = key ELSE key \in DOMAIN row

ValueUnder(row, key) ==
    IF Projected THEN row[CHOOSE j \in 1..Len(row) : row[j][1] = key][2] ELSE row[key]

\* Whether the _row of a row is a position of the sheet below the header,
\* where the sheet holds the cells of the row.
AtItsPosition(row) ==
    /\ RowNumber(row) \in 2..Len(sheet)
    /\ \A c \in 1..Len(sheet[1]) :
          CarriesKey(row, sheet[1][c])
              => ValueUnder(row, sheet[1][c]) = Str(sheet[RowNumber(row)][c])

PositionsHold ==
    /\ \A i \in 1..Len(ret.rows) : CarriesRow(ret.rows[i]) /\ AtItsPosition(ret.rows[i])
    /\ \A i, j \in 1..Len(ret.rows) :
          i # j => RowNumber(ret.rows[i]) # RowNumber(ret.rows[j])

\* C20: every row of the result of select, for every where and every
\* options, carries a _row that no other row of the result has and that is
\* its position in the sheet, counted from 1: the header is at 1, the first
\* data row at 2.
C20_EveryResultRowCarriesItsPosition ==
    (SelectReturned /\ ~ret.threw) => PositionsHold

\* C20, amended: so it is for every where and for the options without
\* selectFields or with _row among the selectFields; under other
\* selectFields the rows of the result carry no _row.
C20_ResultRowCarriesItsPositionUnlessProjectedAway ==
    (SelectReturned /\ ~ret.threw) =>
        IF Projected /\ "_row" \notin Range(options.selectFields.items)
        THEN \A i \in 1..Len(ret.rows) : ~CarriesRow(ret.rows[i])
        ELSE PositionsHold

\* Of three data rows the filter keeps the second and the third, which
\* carry the positions 3 and 4.
C20_Witness ==
    /\ SelectReturned
    /\ where # <<>>
    /\ options.selectFields = Undefined
    /\ options.orderBy = Undefined
    /\ Len(sheet) = 4
    /\ Len(ret.rows) = 2
    /\ ret.rows[1]._row = Num(3)
    /\ ret.rows[2]._row = Num(4)

\* The translator has returned from a statement of the given kind.
Translated(kind) == ConverterReturned /\ sqlParts.kind = kind

\* The mapping an assignment list stands for: each column to its value.
MappingOf(pairs) == [i \in 1..Len(pairs) |-> <<pairs[i].column, Str(pairs[i].value)>>]

\* C13: the pairs col = 'value', their values free of quote characters,
\* joined by AND in the WHERE clause of a SELECT, an UPDATE or a DELETE
\* translate to the filter that maps each col to its value, and the pairs
\* joined by commas in the SET clause of an UPDATE to the new data: no pair
\* is added, dropped or cut short.
C13_AssignmentListsRoundTrip ==
    Translated("assignments") =>
        /\ ~ret.threw
        /\ ret.args.where = MappingOf(sqlParts.wherePairs)
        /\ sqlParts.statement = "UPDATE" => ret.args.newData = MappingOf(sqlParts.setPairs)

HasOption(key) == \E i \in 1..Len(ret.args.options) : ret.args.options[i][1] = key

OptionOf(key) == ret.args.options[CHOOSE i \in 1..Len(ret.args.options) : ret.args.options[i][1] = key][2]

\* The orderBy option a list of ORDER BY keys stands for.
OrderByOf(keys) ==
    [i \in 1..Len(keys) |->
        [column |-> keys[i].column,
         direction |-> Str(IF keys[i].direction = "" THEN "asc" ELSE ToLowerCase(keys[i].direction))]]

\* C14: a SELECT written with a field list, ORDER BY keys, LIMIT n and
\* OFFSET m, in that order, translates to the options that hold exactly the
\* selectFields (none for *), the orderBy with one {column, direction} per
\* key, the direction in lower case and asc when not written, and the
\* integers limit and offset; a clause that is not written gives no key.
C14_SelectClausesBecomeOptions ==
    Translated("select") =>
        /\ ~ret.threw
        /\ ret.operation = "select"
        /\ HasOption("selectFields") <=> sqlParts.fieldList # <<>>
        /\ HasOption("selectFields") => OptionOf("selectFields") = sqlParts.fieldList
        /\ HasOption("orderBy") <=> sqlParts.keys # <<>>
        /\ HasOption("orderBy") => OptionOf("orderBy") = OrderByOf(sqlParts.keys)
        /\ HasOption("limit") <=> sqlParts.limit >= 0
        /\ HasOption("limit") => OptionOf("limit") = Num(sqlParts.limit)
        /\ HasOption("offset") <=> sqlParts.offset >= 0
        /\ HasOption("offset") => OptionOf("offset") = Num(sqlParts.offset)

\* The place of a clause in the order WHERE, ORDER BY, LIMIT, OFFSET.
ClauseRank(clause) == CHOOSE r \in 1..Len(ClauseNames) : ClauseNames[r] = clause

\* Whether the command holds what the clause says.
Recognized(clause) ==
    CASE clause = "WHERE" -> ret.args.where # <<>>
      [] clause = "ORDER BY" -> HasOption("orderBy")
      [] clause = "LIMIT" -> HasOption("limit")
      [] clause = "OFFSET" -> HasOption("offset")

\* C15: the clauses WHERE, ORDER BY, LIMIT and OFFSET are recognized only in
\* that relative order: a clause written out of order is not recognized and
\* is absent from the command, and nothing is raised. So of two clauses
\* written in the wrong order the command never holds both.
C15_ClausesOnlyInOrder ==
    Translated("clauses") =>
        /\ ~ret.threw
        /\ \A i, j \in 1..Len(sqlParts.clauses) :
              (i < j /\ ClauseRank(sqlParts.clauses[i]) > ClauseRank(sqlParts.clauses[j]))
                  => ~(Recognized(sqlParts.clauses[i]) /\ Recognized(sqlParts.clauses[j]))

\* C16: a statement that begins with a recognized keyword and lacks a
\* required part (the table, the column list, VALUES, FROM, SET, the WHERE
\* of an UPDATE or a DELETE) fails with an error and gives no command.
C16_MalformedStatementFails ==
    Translated("malformed") => ret.threw /\ ret.operation = ""

Unsupported == ret.threw /\ ret.error = "Unsupported SQL operation"

\* C17: GET TABLES and SHOW TABLE DETAIL, alone once trimmed and in any
\* case, translate to the commands getTables and showTableDetail without
\* arguments; a text that begins with no recognized keyword, these two
\* followed by anything included, fails with 'Unsupported SQL operation'.
C17_StatementsWithoutArguments ==
    /\ Translated("nonstandard") =>
          IF sqlParts.extra = ""
          THEN /\ ~ret.threw
               /\ ret.operation = (IF sqlParts.base = "GET TABLES" THEN "getTables" ELSE "showTableDetail")
               /\ ret.args = <<>>
          ELSE Unsupported
    /\ Translated("other") => Unsupported

\* show table detail, in lower case between spaces, is translated.
C17_Witness ==
    /\ Translated("nonstandard")
    /\ sqlQuery = "  show table detail "
    /\ ret.operation = "showTableDetail"

\* The calls that read rows of the store, and the calls that write them.
StoreReads == {"values.get"}
StoreWrites == {"values.append", "values.update", "values.clear", "batchUpdate"}

ReadCount(calls) == Cardinality({i \in 1..Len(calls) : calls[i] \in StoreReads})

\* C18: every public operation issues at most one read of the row store,
\* and each of its writes comes after that read: no read follows a write.
\* (The calls of one operation are awaited one after the other, so no two
\* of them are in flight at once.)
C18_OneReadThenWrites ==
    \A c \in Callers :
        /\ ReadCount(log[c]) <= 1
        /\ \A i, j \in 1..Len(log[c]) :
              (i < j /\ log[c][i] \in StoreWrites) => log[c][j] \notin StoreReads

\* The step of caller c is the positional write of an update or a delete.
PositionalWrite(c) ==
    /\ ops[c].fn \in {"update", "delete"}
    /\ ops[c].pc \in {"update", "clear"}
    /\ ops'[c] # ops[c]

\* What a positional write leaves at the position of its snapshot.
Written(op) ==
    IF op.fn = "update"
    THEN TrimCells(UpdatedRow(op.headers, Head(op.rows), op.newData))
    ELSE <<>>

\* C19: there is no isolation between operations. The positional write of
\* an update or a delete goes to the position its row had when the sheet
\* was read, whatever the sheet holds there by now, and leaves every other
\* row alone: after an insertBeforeRow has put a row above the matching row
\* in between, the write lands on a different row. No operation notices:
\* none fails.
C19_PositionalWriteLandsOnSnapshotPosition ==
    [][\A c \in Callers :
          /\ ops'[c].pc # "failed"
          /\ PositionalWrite(c) =>
                LET r == Head(ops[c].rows)._row.n
                IN  /\ RowAt(sheet', r) = Written(ops[c])
                    /\ \A i \in 1..(Len(sheet) + Len(sheet')) :
                          i # r => RowAt(sheet', i) = RowAt(sheet, i)]_vars

\* update read Bob at position 2; insertBeforeRow then put Zed there and
\* moved Bob to 3; the write of update replaced Zed, and Bob is as he was.
C19_Witness ==
    /\ \E c, d \in Callers :
          /\ ops[c].name = "update" /\ ops[c].pc = "done"
          /\ ops[d].name = "insertBeforeRow" /\ ops[d].fn = "insertBeforeRow" /\ ops[d].pc = "done"
    /\ sheet = <<StoreHeaders, <<"2", "Bobby">>, <<"2", "Bob">>>>

\* The operation of caller c has returned.
HasReturned(c, name) == ops[c].name = name /\ ops[c].pc = "done"

\* C21: delete(where) deletes the rows that match the filter. After it has
\* returned, with no other operation on the table, a select(where) with
\* the same filter returns no rows; this for every filter, the empty one
\* and literals loosely equal to the empty string among them.
C21_SelectAfterDeleteReturnsNothing ==
    \A c \in DOMAIN ops :
        HasReturned(c, "delete") /\ DOMAIN ops = Alone =>
            \E selected \in {ApplyFilterResult(GetSheetData(sheet), ops[c].where)} :
                ~selected.threw /\ selected.rows = <<>>

\* The writes of the store that caller c has issued.
WritesOf(c) == {i \in 1..Len(log[c]) : log[c][i] \in StoreWrites}

\* The operation of caller c has ended, returned or failed.
Ended(c) == ops[c].pc \in {"done", "failed"}

\* C22: a required argument is missing. updateOrInsertBeforeRow and
\* updateOrInsertAfterRow called with a newData that does not hold the
\* unique key issue no write to the store and fail with the error "newData
\* must contain the unique key", whatever the table holds and whether a
\* row matches where or not.
C22_MissingUniqueKeyFailsWithoutWrite ==
    \A c \in DOMAIN ops :
        /\ ops[c].name \in {"updateOrInsertBeforeRow", "updateOrInsertAfterRow"}
        /\ ~HasOwnProperty(ops[c].newData, ops[c].uniqueKey)
        => /\ WritesOf(c) = {}
           /\ Ended(c) => ops[c].pc = "failed" /\ ops[c].error = MissingUniqueKey

\* C23: createTable(columns) sets the headers. After it has returned
\* success the header row of the table is columns, the same names and the
\* same length, whether the tab was created by the call or was there with
\* a header of any length; with columns empty or not an array it raises
\* before any call of the store.
C23_CreateTableSetsHeaders ==
    \A c \in DOMAIN ops :
        ops[c].name = "createTable" =>
            /\ ops[c].pc = "done" => tab /\ RowAt(sheet, 1) = ops[c].columns.items
            /\ ColumnsRejected(ops[c].columns) =>
                  log[c] = <<>> /\ (Ended(c) => ops[c].pc = "failed")

\* C24: truncateTable clears all the data and keeps the header. After it
\* has returned success the header row is as it was and no data cell is
\* left, for a table of any number of rows and columns: select({}) returns
\* no rows.
C24_TruncateTableLeavesTheHeaderOnly ==
    \A c \in DOMAIN ops :
        HasReturned(c, "truncateTable") =>
            /\ RowAt(sheet, 1) = RowAt(data, 1)
            /\ \A i \in 2..Len(sheet) : \A j \in 1..Len(sheet[i]) : sheet[i][j] = ""
            /\ GetSheetData(sheet) = <<>>

\* The cell of column j in row r of a sheet, '' where the sheet has none.
Cell(values, r, j) == IF r <= Len(values) /\ j <= Len(values[r]) THEN values[r][j] ELSE ""

\* The positions of rows, one after the other.
Positions(rows) == [i \in 1..Len(rows) |-> rows[i]._row.n]

\* The sheet is the sheet before with newData laid over the rows at the
\* positions: a column named in newData with a value that is neither
\* undefined nor null holds that value, every other cell is as before.
LaidOver(positions, newData) ==
    \A r \in 1..Max({Len(sheet), Len(data)}) :
        IF r \in Range(positions)
        THEN \A j \in 1..Len(data[1]) :
                LET v == ObjectGet(newData, data[1][j])
                IN  Cell(sheet, r, j) = IF v.t \in {"undefined", "null"}
                                        THEN Cell(data, r, j) ELSE JsToString(v)
        ELSE RowAt(sheet, r) = RowAt(data, r)

\* C25: update(where, newData) writes the rows of the sheet it read that
\* match where, each once and from the top down. In such a row every
\* column h of the header receives newData[h] when that is neither undefined
\* nor null and keeps its value otherwise; the rows that do not match and
\* the header are not written, keys of newData that are no column are
\* ignored, and updatedCount is the number of matching rows.
C25_UpdateWritesTheMatchingRows ==
    \A c \in DOMAIN ops :
        HasReturned(c, "update") /\ DOMAIN ops = Alone =>
            \E matching \in {ApplyFilterResult(GetSheetData(data), ops[c].where)} :
                /\ ops[c].written = Positions(matching.rows)
                /\ WritesOf(c) = {1 + i : i \in 1..Len(matching.rows)}
                /\ LaidOver(ops[c].written, ops[c].newData)

\* The sheet before with the row put in at position q: the rows from q on
\* are one further down, each row as it was.
WithRowAt(q, cells) == SubSeq(data, 1, q - 1) \o <<cells>> \o SubSeq(data, q, Len(data))

\* C26: with no other operation under way and the first matching row at
\* position p, insertBeforeRow(where, data) leaves the new row at p and the
\* matched row at p + 1, and insertAfterRow(where, data) leaves the matched
\* row at p and the new row at p + 1. Either way the table has one row
\* more, the rows it had keep their content and their order, and the row
\* number returned is the position of the new row. Without a matching row
\* the new row is appended at the end.
C26_InsertBesideTheFirstMatch ==
    \A c \in DOMAIN ops :
        /\ ops[c].name \in {"insertBeforeRow", "insertAfterRow"}
        /\ ops[c].pc = "done"
        /\ DOMAIN ops = Alone
        => \E matching \in {ApplyFilterResult(GetSheetData(data), ops[c].where)} :
              LET new == TrimCells(NewRow(data[1], ops[c].newData))
                  p == matching.rows[1]._row.n
                  q == IF ops[c].name = "insertBeforeRow" THEN p ELSE p + 1
                  matched == IF ops[c].name = "insertBeforeRow" THEN p + 1 ELSE p
              IN  IF matching.rows = <<>>
                  THEN sheet = data \o <<new>>
                  ELSE /\ sheet = WithRowAt(q, new)
                       /\ sheet[q] = new
                       /\ sheet[matched] = data[p]
                       /\ Len(sheet) = Len(data) + 1
                       /\ ops[c].row = q

\* insertBeforeRow found Bob at position 3 of four rows, below Alice and
\* above a second Bob: Zed is at 3 and both Bobs are one further down.
C26_Witness ==
    \E c \in DOMAIN ops :
        /\ HasReturned(c, "insertBeforeRow")
        /\ ops[c].row = 3
        /\ data = <<StoreHeaders, <<"1", "Alice">>, <<"2", "Bob">>, <<"2", "Bob">>>>
        /\ sheet = <<StoreHeaders, <<"1", "Alice">>, <<"0", "Zed">>, <<"2", "Bob">>, <<"2", "Bob">>>>

\* The sheet before with the cells at position r, and nothing else changed.
WithRowReplaced(r, cells) == [i \in 1..Len(data) |-> IF i = r THEN TrimCells(cells) ELSE data[i]]

\* newData over the cells of row r of the sheet before: a column that
\* newData names holds its value, every other cell is as it was.
MergedOver(r, newData) ==
    [j \in 1..Len(data[1]) |->
        IF HasOwnProperty(newData, data[1][j])
        THEN JsToString(ObjectGet(newData, data[1][j])) ELSE Cell(data, r, j)]

\* newData over an empty row.
OverEmpty(newData) ==
    [j \in 1..Len(data[1]) |->
        IF HasOwnProperty(newData, data[1][j])
        THEN JsToString(ObjectGet(newData, data[1][j])) ELSE ""]

\* The data rows above position p of the sheet before whose value under
\* the column key is the value v.
SameKeyAbove(p, key, v) ==
    {r \in 2..(p - 1) : \E j \in 1..Len(data[1]) : data[1][j] = key /\ Str(Cell(data, r, j)) = v}

\* The data rows above p from which every row down to p - 1 is empty.
EmptyBlockAbove(p) == {r \in 2..(p - 1) : \A s \in r..(p - 1) : data[s] = <<>>}

\* The calls of the store that write, as caller c issued them.
WriteCalls(c) == LET IsWrite(call) == call \in StoreWrites IN SelectSeq(log[c], IsWrite)

\* C27: with the first matching row at position p and a newData that holds
\* the unique key, updateOrInsertBeforeRow does one of three things, the
\* first that applies: (1) a row above p has the same value of the unique
\* key: that row alone is overwritten, newData merged over it, and no row is
\* inserted; (2) ignoreEmptyRows is true and the row at p - 1 is empty: the
\* topmost row of the empty rows that end at p - 1 is overwritten and no
\* row is inserted; (3) a new row is inserted at p and the matched row is
\* at p + 1.
C27_UpdateOrInsertBeforeRowDoesOneOfThree ==
    \A c \in DOMAIN ops :
        /\ HasReturned(c, "updateOrInsertBeforeRow")
        /\ HasOwnProperty(ops[c].newData, ops[c].uniqueKey)
        /\ DOMAIN ops = Alone
        => \E matching \in {ApplyFilterResult(GetSheetData(data), ops[c].where)} :
              matching.rows # <<>> =>
                 LET op == ops[c]
                     p == matching.rows[1]._row.n
                     same == SameKeyAbove(p, op.uniqueKey, ObjectGet(op.newData, op.uniqueKey))
                     empty == EmptyBlockAbove(p)
                 IN  IF same # {}
                     THEN /\ \E r \in same : sheet = WithRowReplaced(r, MergedOver(r, op.newData))
                          /\ WriteCalls(c) = <<"values.update">>
                     ELSE IF op.ignoreEmptyRows /\ empty # {}
                     THEN /\ sheet = WithRowReplaced(Min(empty), OverEmpty(op.newData))
                          /\ WriteCalls(c) = <<"values.update">>
                     ELSE /\ sheet = WithRowAt(p, TrimCells(NewRow(data[1], op.newData)))
                          /\ sheet[p + 1] = data[p]
                          /\ WriteCalls(c) = <<"batchUpdate", "values.update">>

\* Two empty rows lie between the header and Bob at position 4, and no row
\* has the id 7: with ignoreEmptyRows the row lands on position 2, the
\* topmost of the two, and Bob stays at 4.
C27_Witness ==
    \E c \in DOMAIN ops :
        /\ HasReturned(c, "updateOrInsertBeforeRow")
        /\ ops[c].ignoreEmptyRows
        /\ data = <<StoreHeaders, <<>>, <<>>, <<"2", "Bob">>>>
        /\ sheet = <<StoreHeaders, <<"7">>, <<>>, <<"2", "Bob">>>>

\* In this step the store rejects a write of the update or delete of
\* caller c: the call is issued and no row is recorded as written.
Rejecting(c) ==
    /\ ops[c].name \in {"update", "delete"}
    /\ ops[c].pc \in {"update", "clear"}
    /\ log'[c] # log[c]
    /\ ops'[c].written = ops[c].written

\* The writes that the update or delete of caller c has recorded are in
\* the sheet, and nothing else has changed since the operation began.
WrittenSoFar(c) ==
    IF ops[c].name = "delete"
    THEN \A r \in 1..Max({Len(sheet), Len(data)}) :
            RowAt(sheet, r) = IF r \in Range(ops[c].written) THEN <<>> ELSE RowAt(data, r)
    ELSE HeaderKeys(data) = data[1] => LaidOver(ops[c].written, ops[c].newData)

\* C28: update and delete are not atomic over their writes. When the store
\* rejects the k-th write (or clear), the operation rejects, the k - 1
\* writes issued before it stay applied to the table, and no further write
\* is issued.
C28_RejectedWriteStopsTheBatch ==
    [][\A c \in DOMAIN ops :
          /\ ops[c].pc = "failed" => log'[c] = log[c]
          /\ Rejecting(c) =>
                \E matching \in {ApplyFilterResult(GetSheetData(data), ops[c].where)} :
                    LET k == Len(ops[c].written) + 1
                    IN  /\ ops'[c].pc = "failed"
                        /\ k \in 1..Len(matching.rows)
                        /\ ops[c].written = Positions(SubSeq(matching.rows, 1, k - 1))
                        /\ WrittenSoFar(c)
                        /\ sheet' = sheet]_vars

\* update matched two rows named Bob; the first write was applied, the
\* second was rejected: the operation has failed, row 2 is Bobby and row 3
\* is still Bob.
C28_Witness ==
    \E c \in DOMAIN ops :
        /\ ops[c].name = "update" /\ ops[c].pc = "failed" /\ ops[c].error = "rejected"
        /\ ops[c].written = <<2>>
        /\ data = <<StoreHeaders, <<"2", "Bob">>, <<"2", "Bob">>>>
        /\ sheet = <<StoreHeaders, <<"2", "Bobby">>, <<"2", "Bob">>>>

\* Caller c has the sheet to itself so far: no other caller has issued a call.
AloneSoFar(c) == \A d \in DOMAIN ops : d # c => log[d] = <<>>

\* C29: updateOrInsert checks and then acts, and the two are not atomic.
\* Run alone it does exactly one of two things: when at least one row
\* matches where it updates the matching rows and appends nothing; when no
\* row matches it appends one row, { ...where, ...newData }, and updates
\* nothing. (Two interleaved calls with the same where on a table without
\* a matching row can both find no match and both append: the table then
\* has two rows for the key.)
C29_UpdateOrInsertDoesOneOfTwo ==
    \A c \in DOMAIN ops :
        HasReturned(c, "updateOrInsert") /\ AloneSoFar(c) =>
            \E matching \in {ApplyFilterResult(GetSheetData(data), ops[c].where)} :
                IF Len(matching.rows) >= 1
                THEN /\ WriteCalls(c) = [i \in 1..Len(matching.rows) |-> "values.update"]
                     /\ ops[c].written = Positions(matching.rows)
                     /\ Len(sheet) = Len(data)
                ELSE /\ WriteCalls(c) = <<"values.append">>
                     /\ sheet = data \o <<NewRow(data[1], Spread(ops[c].where, ops[c].newData, 1))>>

\* Both callers ran updateOrInsert({name: 'Bob'}, {id: '9'}) on a table
\* without a Bob, both selected before either appended, and both have
\* returned: the table has two rows ('9', 'Bob').
C29_Witness ==
    /\ \A c \in Callers : HasReturned(c, "updateOrInsert") /\ WriteCalls(c) = <<"values.append">>
    /\ data = <<StoreHeaders, <<"1", "Alice">>>>
    /\ sheet = <<StoreHeaders, <<"1", "Alice">>, <<"9", "Bob">>, <<"9", "Bob">>>>

\* Every position of the sheet before holds a blank row where the row
\* matched and the row as it was where it did not, the header included,
\* and the sheet has nothing below them.
ClearedInPlace(positions) ==
    /\ \A r \in 1..Len(data) :
          RowAt(sheet, r) = IF r \in Range(positions) THEN <<>> ELSE data[r]
    /\ Len(sheet) <= Len(data)

\* C30 as the spec has it: delete(where) clears the cells of the matching
\* rows in place and removes no row. The number of rows of the table, the
\* header, and the position and content of every row that did not match
\* are unchanged; deletedRows lists the positions of the matching rows of
\* the sheet read, in ascending order, and deletedCount is their number.
C30_DeleteKeepsTheNumberOfRows ==
    \A c \in DOMAIN ops :
        HasReturned(c, "delete") /\ DOMAIN ops = Alone =>
            \E matching \in {ApplyFilterResult(GetSheetData(data), ops[c].where)} :
                /\ ops[c].written = Positions(matching.rows)
                /\ ClearedInPlace(ops[c].written)
                /\ Len(GetSheetData(sheet)) = Len(GetSheetData(data))

\* C30, amended: delete(where) clears the cells of the matching rows in
\* place and moves no row. The header and the position and content of
\* every row that did not match are unchanged and every matching row is
\* blank at its position; the table read afterwards ends at the last row
\* that still holds data, so it has as many rows as before unless the rows
\* at its end were cleared. deletedRows lists the positions of the matching
\* rows of the sheet read, in ascending order, and deletedCount is their
\* number.
C30_DeleteClearsInPlace ==
    \A c \in DOMAIN ops :
        HasReturned(c, "delete") /\ DOMAIN ops = Alone =>
            \E matching \in {ApplyFilterResult(GetSheetData(data), ops[c].where)} :
                LET kept == {r \in 2..Len(data) :
                                r \notin Range(ops[c].written) /\ data[r] # <<>>}
                IN  /\ ops[c].written = Positions(matching.rows)
                    /\ ClearedInPlace(ops[c].written)
                    /\ Len(GetSheetData(sheet)) = Max(kept \cup {1}) - 1

\* delete({name: 'Bob'}) on Bob at position 2 above Alice at position 3:
\* row 2 is blank, Alice is still at 3, and deletedRows is [2].
C30_Witness ==
    \E c \in DOMAIN ops :
        /\ HasReturned(c, "delete")
        /\ ops[c].written = <<2>>
        /\ data = <<StoreHeaders, <<"2", "Bob">>, <<"1", "Alice">>>>
        /\ sheet = <<StoreHeaders, <<>>, <<"1", "Alice">>>>

====
